---- MODULE Spec2Model ----
(***************************************************************************)
(* A model of the ingestion / normalization / dedup / backup core of       *)
(* TibiaAnalyzer-web (ta_core and the pages that write the Store).         *)
(*                                                                         *)
(* JSON values are tagged tuples: <<"null">>, <<"int", n>>, <<"str", cs>>  *)
(* where cs is the sequence of the string's characters (one-character      *)
(* strings), <<"list", xs>> and <<"dict", f>> where f is a function from   *)
(* the dict's keys to values.  The code's text processing (strip, regex    *)
(* substitution, int(), lower()) is computed character by character.       *)
(***************************************************************************)
EXTENDS Integers, Sequences, FiniteSets, TLC

\* ------------------------------------------------------------------ values

Null == <<"null">>
JInt(n) == <<"int", n>>
JStr(cs) == <<"str", cs>>
JDict(f) == <<"dict", f>>
JList(xs) == <<"list", xs>>
IsNull(v) == v[1] = "null"
IsInt(v) == v[1] = "int"
IsStr(v) == v[1] = "str"
IsDict(v) == v[1] = "dict"
IsList(v) == v[1] = "list"

Digits == {"0", "1", "2", "3", "4", "5", "6", "7", "8", "9"}

DigitVal(c) ==
    CASE c = "0" -> 0 [] c = "1" -> 1 [] c = "2" -> 2 [] c = "3" -> 3
      [] c = "4" -> 4 [] c = "5" -> 5 [] c = "6" -> 6 [] c = "7" -> 7
      [] c = "8" -> 8 [] c = "9" -> 9

DigitChar(d) ==
    CASE d = 0 -> "0" [] d = 1 -> "1" [] d = 2 -> "2" [] d = 3 -> "3"
      [] d = 4 -> "4" [] d = 5 -> "5" [] d = 6 -> "6" [] d = 7 -> "7"
      [] d = 8 -> "8" [] d = 9 -> "9"

AllDigits(cs) == \A i \in 1..Len(cs) : cs[i] \in Digits

RECURSIVE DigitsToNat(_)
DigitsToNat(cs) ==
    IF cs = <<>> THEN 0
    ELSE 10 * DigitsToNat(SubSeq(cs, 1, Len(cs) - 1)) + DigitVal(cs[Len(cs)])

RECURSIVE NatToChars(_)
NatToChars(n) ==
    IF n < 10 THEN <<DigitChar(n)>>
    ELSE NatToChars(n \div 10) \o <<DigitChar(n % 10)>>

IntToChars(n) == IF n < 0 THEN <<"-">> \o NatToChars(0 - n) ELSE NatToChars(n)

\* Python's str(v) for the value shapes of the model.
PyStr(v) ==
    CASE IsNull(v) -> <<"N", "o", "n", "e">>
      [] IsInt(v) -> IntToChars(v[2])
      [] IsStr(v) -> v[2]

\* Python's truth value of v.
Truthy(v) ==
    CASE IsNull(v) -> FALSE
      [] IsInt(v) -> v[2] # 0
      [] IsStr(v) -> v[2] # <<>>
      [] IsList(v) -> v[2] # <<>>
      [] IsDict(v) -> DOMAIN v[2] # {}

\* `v or ""` followed by str(): the idiom str(x or "").
StrOrEmpty(v) == IF Truthy(v) THEN PyStr(v) ELSE <<>>

IsSpace(c) == c = " "

RECURSIVE LStrip(_)
LStrip(cs) ==
    IF cs # <<>> /\ IsSpace(cs[1]) THEN LStrip(Tail(cs)) ELSE cs

RECURSIVE RStrip(_)
RStrip(cs) ==
    IF cs # <<>> /\ IsSpace(cs[Len(cs)])
    THEN RStrip(SubSeq(cs, 1, Len(cs) - 1)) ELSE cs

Strip(cs) == RStrip(LStrip(cs))

UpperToLower ==
    [c \in {"A", "B", "C", "D", "E", "F", "G", "H", "I", "J", "K", "L", "M",
            "N", "O", "P", "Q", "R", "S", "T", "U", "V", "W", "X", "Y", "Z"} |->
        CASE c = "A" -> "a" [] c = "B" -> "b" [] c = "C" -> "c" [] c = "D" -> "d"
          [] c = "E" -> "e" [] c = "F" -> "f" [] c = "G" -> "g" [] c = "H" -> "h"
          [] c = "I" -> "i" [] c = "J" -> "j" [] c = "K" -> "k" [] c = "L" -> "l"
          [] c = "M" -> "m" [] c = "N" -> "n" [] c = "O" -> "o" [] c = "P" -> "p"
          [] c = "Q" -> "q" [] c = "R" -> "r" [] c = "S" -> "s" [] c = "T" -> "t"
          [] c = "U" -> "u" [] c = "V" -> "v" [] c = "W" -> "w" [] c = "X" -> "x"
          [] c = "Y" -> "y" [] c = "Z" -> "z"]

\* str.lower()
Lower(cs) ==
    [i \in 1..Len(cs) |->
        IF cs[i] \in DOMAIN UpperToLower THEN UpperToLower[cs[i]] ELSE cs[i]]

\* Python's int(text): an optional sign followed by at least one digit,
\* surrounding whitespace ignored; anything else raises ValueError.
PyIntBody(cs) ==
    IF cs # <<>> /\ cs[1] \in {"-", "+"} THEN Tail(cs) ELSE cs

PyIntOk(cs) ==
    LET s == Strip(cs)
    IN  PyIntBody(s) # <<>> /\ AllDigits(PyIntBody(s))

PyInt(cs) ==
    LET s == Strip(cs)
    IN  IF s[1] = "-" THEN 0 - DigitsToNat(PyIntBody(s))
        ELSE DigitsToNat(PyIntBody(s))

\* dict.get(k, default)
DictGet(d, k, default) == IF k \in DOMAIN d THEN d[k] ELSE default

DictGetOr(d, k, default) == IF k \in DOMAIN d THEN d[k] ELSE default

SeqToSet(xs) == {xs[i] : i \in 1..Len(xs)}

Occurrences(xs, x) == Cardinality({i \in 1..Len(xs) : xs[i] = x})

\* The texts the records of the model are made of.
sK == <<"K">>
sZ == <<"Z">>
t1000 == <<"1", "0", ":", "0", "0">>
t1100 == <<"1", "1", ":", "0", "0">>
t1200 == <<"1", "2", ":", "0", "0">>

\* ------------------------------------------------------- ta_core/normalizer

REQ_FIELDS ==
    {"path", "session_start", "session_end", "duration", "xp_gain", "raw_xp_gain",
     "supplies", "loot", "vocation", "mode", "zona", "level"}

ALIASES ==
    [session_start |-> <<"Session start", "session_start", "Start", "start">>,
     session_end   |-> <<"Session end", "session_end", "End", "end">>,
     duration      |-> <<"Session length", "duration", "Duration", "length">>,
     xp_gain       |-> <<"XP Gain", "xp_gain", "XP", "Xp Gain">>,
     raw_xp_gain   |-> <<"Raw XP Gain", "raw_xp_gain", "Raw XP">>,
     supplies      |-> <<"Supplies", "supplies">>,
     loot          |-> <<"Loot", "loot">>,
     balance       |-> <<"Balance", "balance">>,
     balance_real  |-> <<"Balance Real", "balance_real", "Real Balance">>,
     transfer_text |-> <<"Transfer", "transfer", "Party Text", "party_text">>,
     vocation      |-> <<"vocation", "Vocation">>,
     mode          |-> <<"mode", "Mode">>,
     vocation_duo  |-> <<"vocation_duo", "Vocation Duo", "Vocation duo">>,
     zona          |-> <<"zona", "Zona", "Zone", "Hunt Place", "Area">>,
     path          |-> <<"path", "Path">>,
     level         |-> <<"Level", "level">>]

\* _first_key taking the first key present, whatever its value.
RECURSIVE FirstKey_anyValue(_, _)
FirstKey_anyValue(d, keys) ==
    IF keys = <<>> THEN Null
    ELSE IF Head(keys) \in DOMAIN d THEN d[Head(keys)]
    ELSE FirstKey_anyValue(d, Tail(keys))

\* _first_key: the value of the first key present whose value is neither
\* None nor "" ; None when there is none.
RECURSIVE FirstKey(_, _)
FirstKey(d, keys) ==
    IF keys = <<>> THEN Null
    ELSE IF Head(keys) \in DOMAIN d /\ d[Head(keys)] \notin {Null, JStr(<<>>)}
         THEN d[Head(keys)]
         ELSE FirstKey(d, Tail(keys))

\* ALIASES.get(field, [field])
AliasesOf(field) == IF field \in DOMAIN ALIASES THEN ALIASES[field] ELSE <<field>>

Get(rec, field) == FirstKey(rec, AliasesOf(field))

\* The text _to_int hands to int(): str(v) stripped, "," and "." removed,
\* whitespace removed, then everything but digits and "-" removed.
ToIntText(v) ==
    LET s1 == Strip(PyStr(v))
        s2 == SelectSeq(s1, LAMBDA c : c \notin {",", "."})
        s3 == SelectSeq(s2, LAMBDA c : ~IsSpace(c))
    IN  SelectSeq(s3, LAMBDA c : c \in Digits \cup {"-"})

\* _to_int raises ValueError when the text left is not an integer literal.
ToIntRaises(v) ==
    /\ ~IsNull(v)
    /\ ~IsInt(v)
    /\ ToIntText(v) # <<>>
    /\ ~PyIntOk(ToIntText(v))

ToInt(v) ==
    IF IsNull(v) THEN 0
    ELSE IF IsInt(v) THEN v[2]
    ELSE IF ToIntText(v) = <<>> THEN 0
    ELSE PyInt(ToIntText(v))

\* DUR_HMH = ^(\d{1,2}):(\d{2})h$ , case-insensitive
DurHmhMatch(s) ==
    \/ /\ Len(s) = 5
       /\ s[1] \in Digits /\ s[2] = ":" /\ s[3] \in Digits /\ s[4] \in Digits
       /\ s[5] \in {"h", "H"}
    \/ /\ Len(s) = 6
       /\ s[1] \in Digits /\ s[2] \in Digits /\ s[3] = ":"
       /\ s[4] \in Digits /\ s[5] \in Digits /\ s[6] \in {"h", "H"}

DurHmhValue(s) ==
    LET n == Len(s)
        hh == DigitsToNat(SubSeq(s, 1, n - 4))
        mm == DigitsToNat(SubSeq(s, n - 2, n - 1))
    IN  hh * 3600 + mm * 60

DurationToSec(v) ==
    IF IsNull(v) THEN 0
    ELSE IF IsInt(v) THEN v[2]
    ELSE LET s == Strip(PyStr(v))
         IN  IF DurHmhMatch(s) THEN DurHmhValue(s)
             ELSE IF PyIntOk(s) THEN PyInt(s)
             ELSE 0

\* dateutil's parser on the timestamps of the model: a time of day "HH:MM"
\* parses to that time on the current date; the other texts the model feeds
\* it hold no date or time and make it raise.
DtParseOk(s) ==
    /\ Len(s) = 5
    /\ s[1] \in Digits /\ s[2] \in Digits /\ s[3] = ":"
    /\ s[4] \in Digits /\ s[5] \in Digits
    /\ DigitsToNat(SubSeq(s, 1, 2)) < 24
    /\ DigitsToNat(SubSeq(s, 4, 5)) < 60

DtParseSec(s) ==
    DigitsToNat(SubSeq(s, 1, 2)) * 3600 + DigitsToNat(SubSeq(s, 4, 5)) * 60

\* The fallback of normalize_records when _duration_to_sec gave 0.
DurationFromTimestamps(session_start, session_end) ==
    LET hasS == Truthy(session_start)
        hasE == Truthy(session_end)
        okS == DtParseOk(PyStr(session_start))
        okE == DtParseOk(PyStr(session_end))
    IN  IF (hasS /\ ~okS) \/ (hasE /\ ~okE) THEN 0
        ELSE IF hasS /\ hasE
             THEN DtParseSec(PyStr(session_end)) - DtParseSec(PyStr(session_start))
             ELSE 0

\* Whether building the row of raw record r (a dict's key-value function)
\* raises: one of the _to_int calls does.
RowRaises(r) ==
    \E f \in {"xp_gain", "raw_xp_gain", "supplies", "loot", "balance", "balance_real"} :
        ToIntRaises(Get(r, f))

HasMetaBase(vocation, mode, zona, xp_gain, raw_xp_gain) ==
    vocation # <<>> /\ mode # <<>> /\ zona # <<>>

MultiModes == {<<"d", "u", "o">>, <<"t", "h">>}

\* HasMeta without the Duo/TH rule.
HasMeta_noReconciliation(vocation, mode, zona, xp_gain, raw_xp_gain, balance_real, transfer_text) ==
    HasMetaBase(vocation, mode, zona, xp_gain, raw_xp_gain)

HasMeta(vocation, mode, zona, xp_gain, raw_xp_gain, balance_real, transfer_text) ==
    LET has_meta == HasMetaBase(vocation, mode, zona, xp_gain, raw_xp_gain)
    IN  IF has_meta /\ Lower(mode) \in MultiModes
        THEN has_meta /\ (balance_real # 0 \/ transfer_text # <<>>)
        ELSE has_meta

\* ^(\d+)\s*-(\d+)$ on the level text: digits, blanks, a dash, digits.
LevelRangeMatch(cs) ==
    \E i \in 1..Len(cs) :
        /\ cs[i] = "-"
        /\ i < Len(cs)
        /\ AllDigits(SubSeq(cs, i + 1, Len(cs)))
        /\ \E j \in 1..(i - 1) :
              /\ AllDigits(SubSeq(cs, 1, j))
              /\ \A k \in (j + 1)..(i - 1) : IsSpace(cs[k])

\* level_bucket: the stripped level text when it is empty or a range, the
\* number its digits spell when there is one, the text itself otherwise
\* (int("") raises and is passed over).
LevelBucket(level_raw) ==
    LET text == Strip(StrOrEmpty(level_raw))
        digits == SelectSeq(text, LAMBDA c : c \in Digits)
    IN  IF text = <<>> \/ LevelRangeMatch(text) THEN text
        ELSE IF digits # <<>> THEN NatToChars(DigitsToNat(digits))
        ELSE text

\* One iteration of normalize_records' loop: the row built from raw record r.
NormalizeRow(r) ==
    LET rec == [k \in DOMAIN r \cup REQ_FIELDS |-> IF k \in DOMAIN r THEN r[k] ELSE Null]
        session_start == Get(rec, "session_start")
        session_end == Get(rec, "session_end")
        duration == Get(rec, "duration")
        xp_gain == ToInt(Get(rec, "xp_gain"))
        raw_xp_gain == ToInt(Get(rec, "raw_xp_gain"))
        supplies == ToInt(Get(rec, "supplies"))
        loot == ToInt(Get(rec, "loot"))
        balance0 == ToInt(Get(rec, "balance"))
        balance_real == ToInt(Get(rec, "balance_real"))
        balance1 == IF balance_real # 0 THEN balance_real ELSE balance0
        vocation == StrOrEmpty(Get(rec, "vocation"))
        mode == StrOrEmpty(Get(rec, "mode"))
        vocation_duo ==
            IF Truthy(Get(rec, "vocation_duo")) THEN PyStr(Get(rec, "vocation_duo"))
            ELSE IF Lower(mode) = <<"s", "o", "l", "o">> THEN <<"n", "o", "n", "e">>
            ELSE <<>>
        zona == StrOrEmpty(Get(rec, "zona"))
        path == StrOrEmpty(Get(rec, "path"))
        d0 == DurationToSec(duration)
        duration_sec == IF d0 = 0 THEN DurationFromTimestamps(session_start, session_end)
                        ELSE d0
        balance == IF balance1 = 0 /\ (loot # 0 \/ supplies # 0)
                   THEN loot - supplies ELSE balance1
        transfer_text == Strip(StrOrEmpty(Get(rec, "transfer_text")))
    IN  [path |-> path,
         session_start |-> StrOrEmpty(session_start),
         session_end |-> StrOrEmpty(session_end),
         duration_sec |-> duration_sec,
         xp_gain |-> xp_gain,
         raw_xp_gain |-> raw_xp_gain,
         supplies |-> supplies,
         loot |-> loot,
         balance |-> balance,
         vocation |-> vocation,
         mode |-> mode,
         vocation_duo |-> vocation_duo,
         zona |-> zona,
         level_bucket |-> LevelBucket(Get(rec, "level")),
         has_all_meta |-> HasMeta(vocation, mode, zona, xp_gain, raw_xp_gain,
                                  balance_real, transfer_text),
         source_raw |-> JDict(r)]

\* RowIsPending without the duration test.
RowIsPending_noDuration(row) ==
    ~row.has_all_meta \/ row.zona = <<>>

\* The test that sends a row to the pending list.
RowIsPending(row) ==
    ~row.has_all_meta \/ row.zona = <<>> \/ row.duration_sec <= 0

SourcesOf(rows) == [i \in 1..Len(rows) |-> rows[i].source_raw]

\* Whether normalize_records raises on item x of its input: x is no dict
\* (x.keys() fails) or one of its numeric fields cannot be coerced.
ItemRaises(x) == ~IsDict(x) \/ RowRaises(x[2])

\* `a or b`
PyOr(a, b) == IF Truthy(a) THEN a ELSE b

\* float(v) on the counts of the model, whole numbers or their texts; it
\* raises on any other value.
FloatOk(v) == IsInt(v) \/ (IsStr(v) /\ PyIntOk(v[2]))
Float(v) == IF IsInt(v) THEN v[2] ELSE PyInt(v[2])

\* The monster names the objects of the model use as keys, as texts.
KeyChars(k) ==
    CASE k = "Rat" -> <<"R", "a", "t">>
      [] k = "Bat" -> <<"B", "a", "t">>

\* The loop of _km_list_to_mapping over a list: the items that are objects
\* add their "Count"/"count" under their stripped "Name"/"name"; other items
\* and objects without a name are passed over.
RECURSIVE KmItems(_, _)
KmItems(out, items) ==
    IF items = <<>> THEN out
    ELSE IF ~IsDict(Head(items)) THEN KmItems(out, Tail(items))
    ELSE LET item == Head(items)[2]
             name == Strip(PyStr(PyOr(PyOr(DictGet(item, "Name", Null),
                                           DictGet(item, "name", Null)), JStr(<<>>))))
             c == PyOr(PyOr(DictGet(item, "Count", Null), DictGet(item, "count", Null)),
                       JInt(0))
             cnt == IF FloatOk(c) THEN Float(c) ELSE 0
         IN  IF name # <<>>
             THEN KmItems((name :> DictGetOr(out, name, 0) + cnt) @@ out, Tail(items))
             ELSE KmItems(out, Tail(items))

\* _km_list_to_mapping on a value that is parsed JSON (a text that is neither
\* JSON nor a Python literal gives the empty mapping).
KmListToMapping(val) ==
    IF IsList(val) THEN KmItems(<<>>, val[2])
    ELSE IF IsDict(val)
    THEN LET keys == {k \in DOMAIN val[2] : FloatOk(PyOr(val[2][k], JInt(0)))}
         IN  [n \in {KeyChars(k) : k \in keys} |->
                 Float(PyOr(val[2][CHOOSE k \in keys : KeyChars(k) = n], JInt(0)))]
    ELSE <<>>

\* _extract_kills_from_raw: the first of the three keys the record has.
ExtractKillsFromRaw(rec) ==
    IF ~IsDict(rec) THEN <<>>
    ELSE IF "Killed Monsters" \in DOMAIN rec[2] THEN KmListToMapping(rec[2]["Killed Monsters"])
    ELSE IF "killed_monsters" \in DOMAIN rec[2] THEN KmListToMapping(rec[2]["killed_monsters"])
    ELSE IF "kills_by_monster" \in DOMAIN rec[2] THEN KmListToMapping(rec[2]["kills_by_monster"])
    ELSE <<>>

\* df["kills_by_monster"] = df["source_raw"].apply(_extract_kills_from_raw)
KillsColumn(rows) ==
    [i \in 1..Len(rows) |->
        [kills_by_monster |-> ExtractKillsFromRaw(rows[i].source_raw)] @@ rows[i]]

\* normalize_records: the processed and the pending rows, in input order, or
\* raised = TRUE when an item makes it raise (no output then).
normalize_records(raw_records) ==
    IF \E i \in 1..Len(raw_records) : ItemRaises(raw_records[i])
    THEN [raised |-> TRUE, rows |-> <<>>, pendings |-> <<>>]
    ELSE LET all == KillsColumn([i \in 1..Len(raw_records) |-> NormalizeRow(raw_records[i][2])])
         IN  [raised |-> FALSE,
              rows |-> SelectSeq(all, LAMBDA row : ~RowIsPending(row)),
              pendings |-> SelectSeq(all, LAMBDA row : RowIsPending(row))]

\* ------------------------------------------------------- ta_core/repository

\* A line of store.jsonl is <<"json", v>>, the text json.dumps(v) gives, or
\* <<"garbage">>, text that json.loads rejects.  hashes.json holds
\* <<"json", v>> or <<"garbage">>.  A list of digests is <<"hashes", S>>:
\* the code builds it from a Python set, in no particular order, and only
\* ever tests membership in it.
JsonLine(v) == <<"json", v>>
GarbageLine == <<"garbage">>
HashList(S) == <<"hashes", S>>
IsHashList(v) == v[1] = "hashes"

\* load_store: the lines that parse, in file order.
load_store(file) ==
    LET good == SelectSeq(file, LAMBDA ln : ln[1] = "json")
    IN  [i \in 1..Len(good) |-> good[i][2]]

\* save_store: one json.dumps line per record.
save_store(rows) == [i \in 1..Len(rows) |-> JsonLine(rows[i])]

\* load_hashes: the list in the file; [] when it does not parse or holds
\* something else.
load_hashes(file) ==
    IF file[1] = "json" /\ IsHashList(file[2]) THEN file[2][2] ELSE {}

save_hashes(hashes) == <<"json", HashList(hashes)>>

\* The Store file as text.  json.dumps writes a string between quotes with
\* the quote, the backslash and the newline escaped; json.loads undoes it
\* and rejects a string that holds a raw newline, a raw quote or a backslash
\* that starts no escape.
RECURSIVE JsonEscape(_)
JsonEscape(cs) ==
    IF cs = <<>> THEN <<>>
    ELSE (CASE Head(cs) = "\n" -> <<"\\", "n">>
            [] Head(cs) = "\"" -> <<"\\", "\"">>
            [] Head(cs) = "\\" -> <<"\\", "\\">>
            [] OTHER -> <<Head(cs)>>) \o JsonEscape(Tail(cs))

RECURSIVE JsonUnescapeOk(_)
JsonUnescapeOk(cs) ==
    IF cs = <<>> THEN TRUE
    ELSE IF Head(cs) \in {"\n", "\""} THEN FALSE
    ELSE IF Head(cs) = "\\"
    THEN Len(cs) >= 2 /\ cs[2] \in {"n", "\"", "\\"} /\ JsonUnescapeOk(Tail(Tail(cs)))
    ELSE JsonUnescapeOk(Tail(cs))

RECURSIVE JsonUnescape(_)
JsonUnescape(cs) ==
    IF cs = <<>> THEN <<>>
    ELSE IF Head(cs) = "\\"
    THEN <<IF cs[2] = "n" THEN "\n" ELSE cs[2]>> \o JsonUnescape(Tail(Tail(cs)))
    ELSE <<Head(cs)>> \o JsonUnescape(Tail(cs))

\* json.dumps(v, ensure_ascii=False): the text of v, kept as the tree of its
\* tokens, every string as it stands between the quotes.
RECURSIVE JsonDumps(_)
JsonDumps(v) ==
    CASE IsStr(v) -> <<"str", JsonEscape(v[2])>>
      [] IsList(v) -> <<"list", [i \in 1..Len(v[2]) |-> JsonDumps(v[2][i])]>>
      [] IsDict(v) -> <<"dict", [k \in DOMAIN v[2] |-> JsonDumps(v[2][k])]>>
      [] OTHER -> v

\* The text holds a raw newline: `for line in f` breaks it there.
RECURSIVE HasRawNewline(_)
HasRawNewline(t) ==
    CASE IsStr(t) -> \E i \in 1..Len(t[2]) : t[2][i] = "\n"
      [] IsList(t) -> \E i \in 1..Len(t[2]) : HasRawNewline(t[2][i])
      [] IsDict(t) -> \E k \in DOMAIN t[2] : HasRawNewline(t[2][k])
      [] OTHER -> FALSE

\* json.loads accepts the text.
RECURSIVE JsonTextOk(_)
JsonTextOk(t) ==
    CASE t = <<"garbage">> -> FALSE
      [] IsStr(t) -> JsonUnescapeOk(t[2])
      [] IsList(t) -> \A i \in 1..Len(t[2]) : JsonTextOk(t[2][i])
      [] IsDict(t) -> \A k \in DOMAIN t[2] : JsonTextOk(t[2][k])
      [] OTHER -> TRUE

\* json.loads(text)
RECURSIVE JsonParse(_)
JsonParse(t) ==
    CASE IsStr(t) -> <<"str", JsonUnescape(t[2])>>
      [] IsList(t) -> <<"list", [i \in 1..Len(t[2]) |-> JsonParse(t[2][i])]>>
      [] IsDict(t) -> <<"dict", [k \in DOMAIN t[2] |-> JsonParse(t[2][k])]>>
      [] OTHER -> t

\* save_store on the text: the file is opened with "w", and every record is
\* written as its JSON text and a newline.  before is the text the file held.
SaveStoreText_append(before, rows) == before \o [i \in 1..Len(rows) |-> JsonDumps(rows[i])]

SaveStoreText(before, rows) == [i \in 1..Len(rows) |-> JsonDumps(rows[i])]

\* load_store on the text: the lines that json.loads accepts, parsed, in file
\* order.  A text with a raw newline is read as lines that are no JSON.
LoadStoreText(file) ==
    LET good == SelectSeq(file, LAMBDA t : ~HasRawNewline(t) /\ JsonTextOk(t))
    IN  [i \in 1..Len(good) |-> JsonParse(good[i])]

\* The uploaded byte payloads.  SHA-256 is taken to be collision free on
\* them: the digest of payload b is <<"sha256", b>>.
Sha256(b) == <<"sha256", b>>

\* A stored record carries under "_upload" the digest of the upload that
\* appended it.  The key is a history annotation: no code reads it.
Stamp(item, h) == JDict(("_upload" :> h) @@ item[2])
Unstamp(item) ==
    IF IsDict(item) THEN JDict([k \in DOMAIN item[2] \ {"_upload"} |-> item[2][k]])
    ELSE item
UploadOf(item) ==
    IF IsDict(item) /\ "_upload" \in DOMAIN item[2] THEN item[2]["_upload"]
    ELSE <<"none">>

rP ==
    JDict(("Session start" :> JStr(t1000)) @@ ("Session end" :> JStr(t1100))
          @@ ("XP Gain" :> JInt(100)) @@ ("Raw XP Gain" :> JInt(90)))

rA ==
    JDict(("Session start" :> JStr(t1100)) @@ ("Session end" :> JStr(t1200))
          @@ ("XP Gain" :> JStr(<<"1", ",", "5">>)) @@ ("Raw XP Gain" :> JInt(90))
          @@ ("Vocation" :> JStr(sK)) @@ ("Mode" :> JStr(<<"S", "o", "l", "o">>))
          @@ ("Zona" :> JStr(sZ)))

Payloads == {"fP", "fL", "fEmpty", "fBad"}

\* json.loads(data.decode("utf-8")) of each payload: fP is one object, fL an
\* array of two objects, fEmpty the array [], fBad is not JSON; fMixed is an
\* array of an object and a number, fNumber a number, fHunts an object whose
\* "hunts" key holds an array of two objects.
JsonLoads(b) ==
    CASE b = "fP" -> <<"ok", rP>>
      [] b = "fL" -> <<"ok", JList(<<rA, rP>>)>>
      [] b = "fEmpty" -> <<"ok", JList(<<>>)>>
      [] b = "fBad" -> <<"error">>
      [] b = "fMixed" -> <<"ok", JList(<<rA, JInt(5)>>)>>
      [] b = "fNumber" -> <<"ok", JInt(5)>>
      [] b = "fHunts" -> <<"ok", JDict("hunts" :> JList(<<rA, rP>>))>>

\* The dicts of a parsed array, each stamped with the upload's digest.
DictItems(xs, h) ==
    LET ds == SelectSeq(xs, LAMBDA x : IsDict(x))
    IN  [i \in 1..Len(ds) |-> Stamp(ds[i], h)]

\* UploadOne without the duplicate test.
UploadOne_noDedup(acc, f) ==
    LET h == Sha256(f)
        obj == JsonLoads(f)
    IN  IF obj[1] = "error"
        THEN [acc EXCEPT !.skipped = @ + 1]
        ELSE IF IsList(obj[2])
        THEN [acc EXCEPT !.to_append = @ \o DictItems(obj[2][2], h),
                         !.batch_seen = @ \cup {h}, !.hashes = @ \cup {h}]
        ELSE IF IsDict(obj[2])
        THEN [acc EXCEPT !.to_append = Append(@, Stamp(obj[2], h)),
                         !.batch_seen = @ \cup {h}, !.hashes = @ \cup {h}]
        ELSE [acc EXCEPT !.skipped = @ + 1]

\* UploadOne giving up the batch at a file that is not JSON.
UploadOne_errorDropsBatch(acc, f) ==
    LET h == Sha256(f)
        obj == JsonLoads(f)
    IN  IF h \in acc.hashes \/ h \in acc.batch_seen
        THEN [acc EXCEPT !.skipped = @ + 1]
        ELSE IF obj[1] = "error"
        THEN [acc EXCEPT !.skipped = @ + 1, !.to_append = <<>>]
        ELSE IF IsList(obj[2])
        THEN [acc EXCEPT !.to_append = @ \o DictItems(obj[2][2], h),
                         !.batch_seen = @ \cup {h}, !.hashes = @ \cup {h}]
        ELSE IF IsDict(obj[2])
        THEN [acc EXCEPT !.to_append = Append(@, Stamp(obj[2], h)),
                         !.batch_seen = @ \cup {h}, !.hashes = @ \cup {h}]
        ELSE [acc EXCEPT !.skipped = @ + 1]

\* UploadOne testing the digests of the batch only, not the ledger's.
UploadOne_batchOnly(acc, f) ==
    LET h == Sha256(f)
        obj == JsonLoads(f)
    IN  IF h \in acc.batch_seen
        THEN [acc EXCEPT !.skipped = @ + 1]
        ELSE IF obj[1] = "error"
        THEN [acc EXCEPT !.skipped = @ + 1]
        ELSE IF IsList(obj[2])
        THEN [acc EXCEPT !.to_append = @ \o DictItems(obj[2][2], h),
                         !.batch_seen = @ \cup {h}, !.hashes = @ \cup {h}]
        ELSE IF IsDict(obj[2])
        THEN [acc EXCEPT !.to_append = Append(@, Stamp(obj[2], h)),
                         !.batch_seen = @ \cup {h}, !.hashes = @ \cup {h}]
        ELSE [acc EXCEPT !.skipped = @ + 1]

\* One iteration of add_uploaded_files' loop over the files.
UploadOne(acc, f) ==
    LET h == Sha256(f)
        obj == JsonLoads(f)
    IN  IF h \in acc.hashes \/ h \in acc.batch_seen
        THEN [acc EXCEPT !.skipped = @ + 1]
        ELSE IF obj[1] = "error"
        THEN [acc EXCEPT !.skipped = @ + 1]
        ELSE IF IsList(obj[2])
        THEN [acc EXCEPT !.to_append = @ \o DictItems(obj[2][2], h),
                         !.batch_seen = @ \cup {h}, !.hashes = @ \cup {h}]
        ELSE IF IsDict(obj[2])
        THEN [acc EXCEPT !.to_append = Append(@, Stamp(obj[2], h)),
                         !.batch_seen = @ \cup {h}, !.hashes = @ \cup {h}]
        ELSE [acc EXCEPT !.skipped = @ + 1]

\* UploadLoop going through the files from the last to the first.
RECURSIVE UploadLoop_lastFirst(_, _)
UploadLoop_lastFirst(acc, files) ==
    IF files = <<>> THEN acc
    ELSE UploadLoop_lastFirst(UploadOne(acc, files[Len(files)]), SubSeq(files, 1, Len(files) - 1))

RECURSIVE UploadLoop(_, _)
UploadLoop(acc, files) ==
    IF files = <<>> THEN acc
    ELSE UploadLoop(UploadOne(acc, Head(files)), Tail(files))

\* store.extend(to_append) putting the new records first.
ExtendStore_front(store, to_append) == to_append \o store

\* store.extend(to_append)
ExtendStore(store, to_append) == store \o to_append

\* add_uploaded_files leaving hashes.json as it was.
add_uploaded_files_noLedger(sfile, hfile, files) ==
    LET start == [hashes |-> load_hashes(hfile), batch_seen |-> {},
                  to_append |-> <<>>, skipped |-> 0]
        acc == UploadLoop(start, files)
        added == Len(acc.to_append)
    IN  [store_jsonl |-> IF added # 0 THEN save_store(load_store(sfile) \o acc.to_append)
                         ELSE sfile,
         hashes_json |-> hfile,
         added |-> added,
         skipped |-> acc.skipped]

\* add_uploaded_files: the files written and the pair returned.
add_uploaded_files(sfile, hfile, files) ==
    LET start == [hashes |-> load_hashes(hfile), batch_seen |-> {},
                  to_append |-> <<>>, skipped |-> 0]
        acc == UploadLoop(start, files)
        added == Len(acc.to_append)
    IN  [store_jsonl |-> IF added # 0 THEN save_store(load_store(sfile) \o acc.to_append)
                         ELSE sfile,
         hashes_json |-> IF added # 0 THEN save_hashes(acc.hashes) ELSE hfile,
         added |-> added,
         skipped |-> acc.skipped]

\* utils/data.process_uploads: the files written, the triple returned and
\* the pair add_uploaded_files gave it.  add_uploaded_files catches what its
\* reads and json.loads raise, so the except branch (fail += 1) is not taken.
process_uploads(sfile, hfile, files) ==
    IF files = <<>>
    THEN [store_jsonl |-> sfile, hashes_json |-> hfile, added |-> 0, skipped |-> 0,
          ok |-> 0, fail |-> 0, logs |-> <<<<"No files to process", 0>>>>]
    ELSE LET r == add_uploaded_files(sfile, hfile, files)
         IN  [store_jsonl |-> r.store_jsonl, hashes_json |-> r.hashes_json,
              added |-> r.added, skipped |-> r.skipped,
              ok |-> r.added, fail |-> 0,
              logs |-> (IF r.added # 0 THEN <<<<"Added new file(s)", r.added>>>> ELSE <<>>)
                       \o (IF r.skipped # 0
                           THEN <<<<"Ignored duplicate file(s)", r.skipped>>>> ELSE <<>>)]

\* ta_core/loader.load_json_files: the records of the files, an object with
\* a "hunts" list giving the elements of that list.  No line of a file that
\* is not JSON parses on its own.
RECURSIVE load_json_files(_)
load_json_files(files) ==
    IF files = <<>> THEN <<>>
    ELSE LET data == JsonLoads(Head(files))
             recs == IF data[1] = "error" THEN <<>>
                     ELSE IF IsList(data[2]) THEN data[2][2]
                     ELSE IF IsDict(data[2])
                          THEN IF "hunts" \in DOMAIN data[2][2] /\ IsList(data[2][2]["hunts"])
                               THEN data[2][2]["hunts"][2]
                               ELSE <<data[2]>>
                     ELSE <<>>
         IN  recs \o load_json_files(Tail(files))

\* str.replace(",", "")
DropCommas(cs) == SelectSeq(cs, LAMBDA c : c # ",")

\* _key_from_item on a stored record (the same code is row_key_from_store_item
\* of the Pending page): dict.get on the two canonical spellings only, and
\* int() of the comma-free text, 0 when int() raises.
KeyFromItem(d) ==
    LET o_start == PyStr(DictGet(d, "Session start", DictGet(d, "session_start", JStr(<<>>))))
        o_end == PyStr(DictGet(d, "Session end", DictGet(d, "session_end", JStr(<<>>))))
        xp_raw == DropCommas(PyStr(DictGet(d, "XP Gain", DictGet(d, "xp_gain", JInt(0)))))
    IN  <<o_start, o_end, IF PyIntOk(xp_raw) THEN PyInt(xp_raw) ELSE 0>>

\* _key_from_item on a row of a normalized DataFrame: the row has no
\* "Session start" / "XP Gain" column, so the defaults session_start,
\* session_end and xp_gain are read.
KeyFromRow(row) == <<row.session_start, row.session_end, row.xp_gain>>

KeysOfRows(rows) == {KeyFromRow(rows[i]) : i \in 1..Len(rows)}

\* backup_by_key[_key_from_item(src)] = src over the rows in order: a Python
\* dict keeps the position of a key's first insertion and its last value.
RECURSIVE DictByKey(_, _)
DictByKey(acc, srcs) ==
    IF srcs = <<>> THEN acc
    ELSE LET src == Head(srcs)
             k == KeyFromItem(src[2])
             hit == {i \in 1..Len(acc) : acc[i][1] = k}
         IN  DictByKey(IF hit = {} THEN Append(acc, <<k, src>>)
                       ELSE [i \in 1..Len(acc) |-> IF i \in hit THEN <<k, src>> ELSE acc[i]],
                       Tail(srcs))

DictValues(pairs) == [i \in 1..Len(pairs) |-> pairs[i][2]]

\* Iterating a JSON value as normalize_records' `for r in raw_records` does:
\* a list gives its items, an empty string or object nothing; a number or
\* null raises, and the characters of a string or keys of an object raise
\* at r.keys().
IterOk(v) == IsList(v) \/ (IsStr(v) /\ v[2] = <<>>) \/ (IsDict(v) /\ DOMAIN v[2] = {})
IterItems(v) == IF IsList(v) THEN v[2] ELSE <<>>

\* A backup file: <<"zip", entries>>, <<"json", value>> or <<"bad">> (bytes that
\* are neither).  json.loads(bytes.decode("utf-8")) succeeds on the second only.
IsZip(b) == b[1] = "zip"
IsJsonText(b) == b[1] = "json"

\* repository.import_backup_replace_processed: keep the current pending
\* records, take the processed records of the backup.
PartialMerge(sfile, hfile, current_store, cur, bk, backup_hashes) ==
    IF cur.raised \/ bk.raised
    THEN [raised |-> TRUE, store_jsonl |-> sfile, hashes_json |-> hfile]
    ELSE LET pending_keys == KeysOfRows(cur.pendings)
             backup_processed == DictValues(DictByKey(<<>>, SourcesOf(bk.rows)))
             kept == SelectSeq(current_store,
                               LAMBDA it : KeyFromItem(it[2]) \in pending_keys)
         IN  [raised |-> FALSE,
              store_jsonl |-> save_store(kept \o backup_processed),
              hashes_json |->
                  IF IsHashList(backup_hashes) THEN save_hashes(backup_hashes[2])
                  ELSE IF IsList(backup_hashes)
                       THEN save_hashes(SeqToSet(backup_hashes[2]))
                       ELSE hfile]

PartialImport(sfile, hfile, b) ==
    IF \/ ~IsJsonText(b)
       \/ ~IsDict(b[2])
       \/ "store" \notin DOMAIN b[2][2]
       \/ ~IterOk(b[2][2]["store"])
    THEN [raised |-> TRUE, store_jsonl |-> sfile, hashes_json |-> hfile]
    ELSE PartialMerge(sfile, hfile, load_store(sfile),
                      normalize_records(load_store(sfile)),
                      normalize_records(IterItems(b[2][2]["store"])),
                      DictGet(b[2][2], "hashes", HashList({})))

\* repository.export_backup_bytes: {"version": 1, "store": [...], "hashes": [...]}
ExportV1(sfile, hfile) ==
    <<"json", JDict(("version" :> JInt(1)) @@ ("store" :> JList(load_store(sfile)))
                    @@ ("hashes" :> HashList(load_hashes(hfile))))>>

\* ------------------------------------------------- ta_core/services/backup

\* services.backup.export_backup_bytes: a zip holding the files as they are.
ExportV2(sfile, hfile) ==
    <<"zip", ("store.jsonl" :> sfile) @@ ("hashes.json" :> hfile)>>

\* zf.read(arcname), b"" for a missing entry: an empty store.jsonl has no
\* line, an empty hashes.json is not JSON.
ZipStore(entries) ==
    IF "store.jsonl" \in DOMAIN entries THEN entries["store.jsonl"] ELSE <<>>

\* ZipHashes finding no hashes.json in any archive.
ZipHashes_missing(entries) == <<"garbage">>

ZipHashes(entries) ==
    IF "hashes.json" \in DOMAIN entries THEN entries["hashes.json"] ELSE <<"garbage">>

\* services.backup.import_backup_replace_processed: replace everything.
FullImport(sfile, hfile, b) ==
    LET unchanged == [raised |-> TRUE, store_jsonl |-> sfile, hashes_json |-> hfile]
    IN  IF IsZip(b)
        THEN [raised |-> FALSE, store_jsonl |-> ZipStore(b[2]), hashes_json |-> ZipHashes(b[2])]
        ELSE IF ~IsJsonText(b) THEN unchanged
        ELSE LET obj == b[2]
             IN  IF IsDict(obj) /\ "store" \in DOMAIN obj[2]
                 THEN IF ~IsList(obj[2]["store"]) THEN unchanged
                      ELSE [raised |-> FALSE,
                            store_jsonl |-> save_store(obj[2]["store"][2]),
                            hashes_json |-> save_hashes({})]
                 ELSE IF IsList(obj)
                 THEN [raised |-> FALSE, store_jsonl |-> save_store(obj[2]),
                       hashes_json |-> save_hashes({})]
                 ELSE unchanged

\* --------------------------------------------------- the pages' store keys

\* float(text) succeeds on an optional sign, digits and at most one ".",
\* with at least one digit (the texts of the model hold no exponent).
PyFloatOk(cs) ==
    LET s == Strip(cs)
        body == PyIntBody(s)
        dots == {i \in 1..Len(body) : body[i] = "."}
    IN  /\ Cardinality(dots) <= 1
        /\ \E i \in 1..Len(body) : body[i] \in Digits
        /\ \A i \in 1..Len(body) : body[i] \in Digits \cup {"."}

\* int(float(text)): the integer part, truncated toward zero.
PyIntOfFloat(cs) ==
    LET s == Strip(cs)
        body == PyIntBody(s)
        dots == {i \in 1..Len(body) : body[i] = "."}
        whole == IF dots = {} THEN body
                 ELSE SubSeq(body, 1, (CHOOSE i \in dots : TRUE) - 1)
    IN  IF s[1] = "-" THEN 0 - DigitsToNat(whole) ELSE DigitsToNat(whole)

\* utils/sidebar._row_key_from_store_item: int(float(...)) on the XP text.
RowKeySidebar(d) ==
    LET s_start == PyStr(DictGet(d, "Session start", DictGet(d, "session_start", JStr(<<>>))))
        s_end == PyStr(DictGet(d, "Session end", DictGet(d, "session_end", JStr(<<>>))))
        xp_raw == DropCommas(PyStr(DictGet(d, "XP Gain", DictGet(d, "xp_gain", JInt(0)))))
    IN  <<s_start, s_end, IF PyFloatOk(xp_raw) THEN PyIntOfFloat(xp_raw) ELSE 0>>

\* The key the pending editor's Save computes: int() only when isdigit().
RowKeySave(d) ==
    LET o_start == PyStr(DictGet(d, "Session start", DictGet(d, "session_start", JStr(<<>>))))
        o_end == PyStr(DictGet(d, "Session end", DictGet(d, "session_end", JStr(<<>>))))
        xo_raw == DropCommas(PyStr(DictGet(d, "XP Gain", DictGet(d, "xp_gain", JInt(0)))))
    IN  <<o_start, o_end,
          IF xo_raw # <<>> /\ AllDigits(xo_raw) THEN DigitsToNat(xo_raw) ELSE 0>>

sKnight == <<"K", "n", "i", "g", "h", "t">>
sSoloMode == <<"S", "o", "l", "o">>
sLevel8 == <<"8", "-", "2", "5">>

\* What the editor's widgets can hold when Save is pressed: vocation, mode,
\* zone and level.
EditChoices == {<<sKnight, sSoloMode, sZ, sLevel8>>}

\* The stored records "Save this row" takes for the record of a row.
SaveHits(store, row) == {i \in 1..Len(store) : RowKeySave(store[i][2]) = KeyFromRow(row)}

\* "Save this row": patch the first stored record whose key is the row's.
SaveRowStore(store, row, choice) ==
    LET hits == SaveHits(store, row)
        first == CHOOSE i \in hits : \A j \in hits : i <= j
        patch == ("Vocation" :> JStr(choice[1])) @@ ("Mode" :> JStr(choice[2]))
                 @@ ("Zona" :> JStr(choice[3])) @@ ("Level" :> JStr(choice[4]))
    IN  IF hits = {} THEN store
        ELSE [i \in 1..Len(store) |->
                 IF i = first THEN JDict(patch @@ store[i][2]) ELSE store[i]]

\* "Delete hunt": drop every stored record whose key is the row's.
DeleteHuntStore(store, row) ==
    SelectSeq(store, LAMBDA it : KeyFromItem(it[2]) # KeyFromRow(row))

\* The sidebar's bulk deletes: drop the records whose key is in the key set.
DeleteKeysStore(store, keyset) ==
    SelectSeq(store, LAMBDA it : RowKeySidebar(it[2]) \notin keyset)

\* ------------------------------------------------------------------- state

VARIABLES
    store_jsonl,   \* data/store.jsonl: the lines of the file
    hashes_json,   \* data/hashes.json: the content of the file
    backup,        \* the backup file the user last exported and kept
    ret,           \* the outcome of the last operation on the Store
    raw_records,   \* the list handed to normalize_records
    norm_out,      \* what the call returned: processed rows, pending rows
    fn_in,         \* the argument of a call of the aggregator or the bestiary
    fn_out,        \* what that call returned
    callers        \* the calls of add_uploaded_files under way: their local variables

storeVars == <<store_jsonl, hashes_json, backup, ret>>

normVars == <<raw_records, norm_out>>

metricVars == <<fn_in, fn_out>>

vars == <<store_jsonl, hashes_json, backup, ret, raw_records, norm_out, fn_in, fn_out, callers>>

\* ------------------------------------------------ inputs of the normalizer


Absent == <<>>

VocationOpts == {Absent, "Vocation" :> JStr(sK)}

ModeOpts ==
    {Absent,
     "Mode" :> JStr(<<"S", "o", "l", "o">>),
     "Mode" :> JStr(<<"D", "u", "o">>),
     "mode" :> JStr(<<"d", "u", "o">>),
     "Mode" :> JStr(<<"T", "H">>),
     "Mode" :> JStr(<<"T", "e", "a", "m", " ", "H", "u", "n", "t">>)}

ZonaOpts == {Absent, "Zona" :> JStr(sZ), "zona" :> JStr(<<>>)}

XpOpts ==
    {Absent,
     "XP Gain" :> JInt(100),
     "XP Gain" :> JStr(<<"1", ",", "5">>),
     "xp_gain" :> JStr(<<"5", "-", "1">>)}

RawXpOpts == {Absent, "Raw XP Gain" :> JInt(90)}

BalanceRealOpts == {Absent, "Balance Real" :> JInt(0), "Balance Real" :> JInt(7)}

TransferOpts == {Absent, "Transfer" :> JStr(<<"o", "k">>), "Transfer" :> JStr(<<" ">>)}

DurationOpts ==
    {Absent,
     "Session length" :> JStr(<<"0", "1", ":", "2", "2", "h">>),
     "Session length" :> JStr(<<"1", "h", " ", "2", "m", "i", "n">>),
     "Session length" :> JStr(<<"6", "2", "m", "i", "n">>),
     "Session length" :> JStr(<<"2", "h">>),
     "Session length" :> JInt(0 - 5)}


TimestampOpts ==
    {Absent,
     ("Session start" :> JStr(t1000)) @@ ("Session end" :> JStr(t1100)),
     ("Session start" :> JStr(t1100)) @@ ("Session end" :> JStr(t1000))}

\* Every raw record the normalizer is run on: one choice per field.
RawRecordSpace ==
    {JDict(v @@ m @@ z @@ x @@ rx @@ br @@ tr @@ du @@ ts) :
        v \in VocationOpts, m \in ModeOpts, z \in ZonaOpts, x \in XpOpts,
        rx \in RawXpOpts, br \in BalanceRealOpts, tr \in TransferOpts,
        du \in DurationOpts, ts \in TimestampOpts}

\* A few records for the lists of more than one record: a complete solo
\* hunt, a raw export without metadata, a duo hunt without reconciliation
\* and a record whose XP cannot be coerced.
recSolo ==
    JDict(("Vocation" :> JStr(sK)) @@ ("Mode" :> JStr(<<"S", "o", "l", "o">>))
          @@ ("Zona" :> JStr(sZ)) @@ ("XP Gain" :> JInt(100))
          @@ ("Raw XP Gain" :> JInt(90))
          @@ ("Session length" :> JStr(<<"0", "1", ":", "2", "2", "h">>)))

recBare ==
    JDict(("XP Gain" :> JInt(100)) @@ ("Raw XP Gain" :> JInt(90))
          @@ ("Session start" :> JStr(t1000)) @@ ("Session end" :> JStr(t1100)))

recDuo ==
    JDict(("Vocation" :> JStr(sK)) @@ ("Mode" :> JStr(<<"D", "u", "o">>))
          @@ ("Zona" :> JStr(sZ)) @@ ("XP Gain" :> JInt(100))
          @@ ("Session length" :> JStr(<<"0", "1", ":", "2", "2", "h">>)))

recBadXp ==
    JDict(("Vocation" :> JStr(sK)) @@ ("XP Gain" :> JStr(<<"5", "-", "1">>)))

ListItems == {recSolo, recBare, recDuo, recBadXp}

NormInputs ==
    {<<>>} \cup {<<r>> : r \in RawRecordSpace}
           \cup {<<a, b>> : a \in ListItems, b \in ListItems}
           \cup {<<a, b, c>> : a \in ListItems, b \in ListItems, c \in ListItems}

NotCalled == [called |-> FALSE, raised |-> FALSE, rows |-> <<>>, pendings |-> <<>>]

\* ------------------------------------------------ the normalizer, as called

\* ensure_data_dirs: an empty store.jsonl and hashes.json holding [].
EmptyStoreFile == <<>>
EmptyHashesFile == <<"json", <<"hashes", {}>>>>
NoBackup == [file |-> <<"none">>, store |-> <<>>, ledger |-> {}]
NoRet == [op |-> "none", arg |-> "", raised |-> FALSE, added |-> 0, skipped |-> 0]

\* The callers that may run add_uploaded_files at the same time, and the
\* local variables of a caller that has not called.
Callers == {"A", "B"}
Idle == [pc |-> "idle", files |-> <<>>, hashes |-> {}, to_append |-> <<>>, skipped |-> 0,
         store |-> <<>>]

FreshData ==
    /\ store_jsonl = EmptyStoreFile
    /\ hashes_json = EmptyHashesFile
    /\ backup = NoBackup
    /\ ret = NoRet
    /\ callers = [c \in Callers |-> Idle]

\* No aggregator or bestiary call is under way.
NoCall == [fn |-> "none", arg |-> <<>>]
NotReturned == [done |-> FALSE, value |-> <<>>]
NoMetrics == fn_in = NoCall /\ fn_out = NotReturned
Call(fn, arg) == [fn |-> fn, arg |-> arg]
Value(v) == [done |-> TRUE, value |-> v]

NormInit ==
    /\ raw_records \in NormInputs
    /\ norm_out = NotCalled
    /\ FreshData
    /\ NoMetrics

\* norm_df, pending_df = normalize_records(raw_records)
Normalize ==
    /\ ~norm_out.called
    /\ norm_out' = [called |-> TRUE] @@ normalize_records(raw_records)
    /\ UNCHANGED <<raw_records, storeVars, metricVars, callers>>

NormNext == Normalize

SpecNorm == NormInit /\ [][NormNext]_vars

\* ------------------------------------------------- operations on the Store

MaxStore == 3

Batches == {<<a>> : a \in Payloads} \cup {<<a, b>> : a \in Payloads, b \in Payloads}

\* The backup files an import can be handed, besides the one the user kept:
\* bytes that are no JSON, JSON of the wrong shape (a number, an object whose
\* "store" is a number or the empty string), a legacy JSON list, a zip
\* without the expected entries, and the v2 and v1 exports of the Store that
\* holds the upload of fL.
BackupNames ==
    {"bkBad", "bkNumber", "bkStoreNotList", "bkStoreText", "bkList", "bkZipOther",
     "bkZipL", "bkJsonL"}

AfterFL == add_uploaded_files(<<>>, <<"json", HashList({})>>, <<"fL">>)

NamedBackup(name) ==
    CASE name = "bkBad" -> <<"bad">>
      [] name = "bkNumber" -> <<"json", JInt(5)>>
      [] name = "bkStoreNotList" -> <<"json", JDict("store" :> JInt(5))>>
      [] name = "bkStoreText" -> <<"json", JDict("store" :> JStr(<<>>))>>
      [] name = "bkList" -> <<"json", JList(<<rA>>)>>
      [] name = "bkZipOther" -> <<"zip", <<>>>>
      [] name = "bkZipL" -> ExportV2(AfterFL.store_jsonl, AfterFL.hashes_json)
      [] name = "bkJsonL" -> ExportV1(AfterFL.store_jsonl, AfterFL.hashes_json)

BackupFile(arg, kept) == IF arg = "kept" THEN kept.file ELSE NamedBackup(arg)

Outcome(op, arg, raised, added, skipped) ==
    [op |-> op, arg |-> arg, raised |-> raised, added |-> added, skipped |-> skipped]

TheStore == load_store(store_jsonl)
TheLedger == load_hashes(hashes_json)

Init ==
    /\ FreshData
    /\ raw_records = <<>>
    /\ norm_out = NotCalled
    /\ NoMetrics

\* streamlit_app / Upload page: add_uploaded_files(files)
Upload ==
    \E files \in Batches :
        \E r \in {add_uploaded_files(store_jsonl, hashes_json, files)} :
            /\ Len(r.store_jsonl) <= MaxStore
            /\ store_jsonl' = r.store_jsonl
            /\ hashes_json' = r.hashes_json
            /\ ret' = Outcome("upload", files, FALSE, r.added, r.skipped)
            /\ UNCHANGED <<backup, normVars, metricVars, callers>>

\* Pending page: "Save this row" on a pending row.
SaveRow ==
    \E n \in {normalize_records(TheStore)} :
        /\ ~n.raised
        /\ \E i \in 1..Len(n.pendings), choice \in EditChoices :
              /\ store_jsonl' = save_store(SaveRowStore(TheStore, n.pendings[i], choice))
              /\ ret' = Outcome("save_row", <<i, choice>>, FALSE, 0, 0)
        /\ UNCHANGED <<hashes_json, backup, normVars, metricVars, callers>>

\* Pending page: "Delete hunt" on a pending row.
DeleteHunt ==
    \E n \in {normalize_records(TheStore)} :
        /\ ~n.raised
        /\ \E i \in 1..Len(n.pendings) :
              /\ store_jsonl' = save_store(DeleteHuntStore(TheStore, n.pendings[i]))
              /\ ret' = Outcome("delete_hunt", <<i>>, FALSE, 0, 0)
        /\ UNCHANGED <<hashes_json, backup, normVars, metricVars, callers>>

\* Sidebar: "Delete processed" (keep pending).
DeleteProcessed ==
    \E n \in {normalize_records(TheStore)} :
        /\ ~n.raised
        /\ store_jsonl' = save_store(DeleteKeysStore(TheStore, KeysOfRows(n.rows)))
        /\ ret' = Outcome("delete_processed", "", FALSE, 0, 0)
        /\ UNCHANGED <<hashes_json, backup, normVars, metricVars, callers>>

\* Sidebar: "Delete pending" (keep processed).
DeletePending ==
    \E n \in {normalize_records(TheStore)} :
        /\ ~n.raised
        /\ store_jsonl' = save_store(DeleteKeysStore(TheStore, KeysOfRows(n.pendings)))
        /\ ret' = Outcome("delete_pending", "", FALSE, 0, 0)
        /\ UNCHANGED <<hashes_json, backup, normVars, metricVars, callers>>

\* Sidebar: "Clear hashes".
ClearHashes ==
    /\ hashes_json' = save_hashes({})
    /\ ret' = Outcome("clear_hashes", "", FALSE, 0, 0)
    /\ UNCHANGED <<store_jsonl, backup, normVars, metricVars, callers>>

\* Sidebar: "Export backup" (services.backup.export_backup_bytes); the user
\* keeps the file.  store and ledger record what the Store and the ledger
\* were when the file was made.
ExportZip ==
    /\ backup' = [file |-> ExportV2(store_jsonl, hashes_json),
                  store |-> TheStore, ledger |-> TheLedger]
    /\ ret' = Outcome("export", "v2", FALSE, 0, 0)
    /\ UNCHANGED <<store_jsonl, hashes_json, normVars, metricVars, callers>>

\* streamlit_app: "Export Backup" (repository.export_backup_bytes).
ExportJson ==
    /\ backup' = [file |-> ExportV1(store_jsonl, hashes_json),
                  store |-> TheStore, ledger |-> TheLedger]
    /\ ret' = Outcome("export", "v1", FALSE, 0, 0)
    /\ UNCHANGED <<store_jsonl, hashes_json, normVars, metricVars, callers>>

\* services.backup.import_backup_replace_processed on backup file arg.
ImportFullOf(arg) ==
    \E r \in {FullImport(store_jsonl, hashes_json, BackupFile(arg, backup))} :
        /\ store_jsonl' = r.store_jsonl
        /\ hashes_json' = r.hashes_json
        /\ ret' = Outcome("import_full", arg, r.raised, 0, 0)
        /\ UNCHANGED <<backup, normVars, metricVars, callers>>

\* repository.import_backup_replace_processed on backup file arg.
ImportPartialOf(arg) ==
    \E r \in {PartialImport(store_jsonl, hashes_json, BackupFile(arg, backup))} :
        /\ Len(r.store_jsonl) <= MaxStore
        /\ store_jsonl' = r.store_jsonl
        /\ hashes_json' = r.hashes_json
        /\ ret' = Outcome("import_partial", arg, r.raised, 0, 0)
        /\ UNCHANGED <<backup, normVars, metricVars, callers>>

\* Sidebar: "Import backup".
ImportFull == \E arg \in BackupNames : ImportFullOf(arg)

\* streamlit_app: "Import now".
ImportPartial == \E arg \in BackupNames : ImportPartialOf(arg)

\* Sidebar: "Import backup" with the file exported earlier.
ImportKept == backup # NoBackup /\ ImportFullOf("kept")

Next ==
    \/ Upload
    \/ SaveRow
    \/ DeleteHunt
    \/ DeleteProcessed
    \/ DeletePending
    \/ ClearHashes
    \/ ImportFull
    \/ ImportPartial

\* The operations on the Store, backup files being inputs.
Spec == Init /\ [][Next]_vars

BackupNext ==
    \/ Upload
    \/ DeleteHunt
    \/ ClearHashes
    \/ ExportZip
    \/ ExportJson
    \/ ImportKept

\* Export, other operations, then a full import of the exported file.
SpecBackup == Init /\ [][BackupNext]_vars

\* The pending editor over stored records of every shape the normalizer
\* reads.  EditKeyShapes: the spellings and number formats of session start,
\* session end and XP gain; EditMetaShapes: the vocation, mode, zone and
\* level keys a pending record may already hold.
sY == <<"Y">>
sDuo == <<"D", "u", "o">>
sHundredPlus == <<"1", "0", "0", "+">>

EditKeyShapes ==
    {("Session start" :> JStr(t1000)) @@ ("Session end" :> JStr(t1100)) @@ ("XP Gain" :> JInt(100)),
     ("session_start" :> JStr(t1000)) @@ ("session_end" :> JStr(t1100)) @@ ("xp_gain" :> JInt(100)),
     ("Start" :> JStr(t1000)) @@ ("End" :> JStr(t1100)) @@ ("XP" :> JInt(100)),
     ("Session start" :> JStr(t1000)) @@ ("Session end" :> JStr(t1100))
         @@ ("XP Gain" :> JStr(<<"1", ",", "5", "0", "0">>)),
     ("Session start" :> JStr(t1000)) @@ ("Session end" :> JStr(t1100))
         @@ ("XP Gain" :> JStr(<<"1", ".", "5", "0", "0">>)),
     ("Session start" :> JStr(t1000)) @@ ("Session end" :> JStr(t1100))
         @@ ("XP Gain" :> JStr(<<>>)) @@ ("xp_gain" :> JInt(100)),
     ("Session start" :> Null) @@ ("session_start" :> JStr(t1000)) @@ ("Session end" :> JStr(t1100))
         @@ ("XP Gain" :> JInt(100))}

EditMetaShapes ==
    {("Mode" :> JStr(sSoloMode)),
     ("Vocation" :> JStr(sK)),
     ("vocation" :> JStr(sK)),
     ("vocation" :> JStr(<<>>)) @@ ("Mode" :> JStr(sSoloMode)),
     ("mode" :> JStr(sDuo)) @@ ("Vocation" :> JStr(sK)),
     ("zona" :> JStr(sY)),
     ("Zone" :> JStr(sY)),
     ("level" :> JStr(sHundredPlus)) @@ ("Zona" :> JStr(sZ)),
     ("Level" :> JStr(sHundredPlus)) @@ ("mode" :> Null)}

EditRecords ==
    {JDict(k @@ m @@ ("Raw XP Gain" :> JInt(90))) : k \in EditKeyShapes, m \in EditMetaShapes}

\* The Store holds one pending record and a complete one of another hunt.
EditInit ==
    /\ \E rec \in EditRecords : store_jsonl = save_store(<<rec, rA>>)
    /\ hashes_json = EmptyHashesFile
    /\ backup = NoBackup
    /\ ret = NoRet
    /\ callers = [c \in Callers |-> Idle]
    /\ raw_records = <<>>
    /\ norm_out = NotCalled
    /\ NoMetrics

EditNext ==
    \/ SaveRow
    \/ DeleteHunt

\* The Pending page on a Store that holds a pending record.
SpecEdit == EditInit /\ [][EditNext]_vars

\* Upload page: process_uploads(up).  The batches: every one of one or two
\* files, and the three-file batches that put a file that is not accepted
\* before, between and after two others.
UploadPayloads == Payloads \cup {"fMixed", "fNumber", "fHunts"}

MixedTriples ==
    {{"fBad", "fP", "fL"}, {"fNumber", "fHunts", "fP"}, {"fBad", "fEmpty", "fMixed"}}

UploadBatches ==
    {<<a>> : a \in UploadPayloads}
        \cup {<<a, b>> : a \in UploadPayloads, b \in UploadPayloads}
        \cup UNION {{q \in [1..3 -> t] : {q[1], q[2], q[3]} = t} : t \in MixedTriples}

ProcessUploads ==
    \E files \in UploadBatches :
        \E p \in {process_uploads(store_jsonl, hashes_json, files)} :
            /\ store_jsonl' = p.store_jsonl
            /\ hashes_json' = p.hashes_json
            /\ ret' = Outcome("process_uploads", files, FALSE, p.added, p.skipped)
            /\ fn_in' = Call("process_uploads", files)
            /\ fn_out' = Value([ok |-> p.ok, fail |-> p.fail, logs |-> p.logs])
            /\ UNCHANGED <<backup, normVars, callers>>

UploadNext == ProcessUploads

\* Upload after upload.
SpecUpload == Init /\ [][UploadNext]_vars

\* Two callers in add_uploaded_files at the same time, each with one file,
\* the two files different.  A caller reads the ledger and goes through its
\* files, then reads the Store, writes the Store, writes the ledger; the
\* reads and writes of the two callers interleave.
RacePayloads == {"fP", "fL", "fMixed", "fBad"}

\* hashes = set(load_hashes()) and the loop over the files.
RaceBegin(c) ==
    /\ callers[c].pc = "idle"
    /\ \E b \in RacePayloads :
          /\ \A d \in Callers \ {c} : callers[d].files # <<b>>
          /\ \E acc \in {UploadLoop([hashes |-> TheLedger, batch_seen |-> {},
                                      to_append |-> <<>>, skipped |-> 0], <<b>>)} :
                callers' = [callers EXCEPT ![c] =
                               [pc |-> IF acc.to_append = <<>> THEN "returned" ELSE "scanned",
                                files |-> <<b>>, hashes |-> acc.hashes,
                                to_append |-> acc.to_append, skipped |-> acc.skipped,
                                store |-> <<>>]]
    /\ UNCHANGED <<storeVars, normVars, metricVars>>

\* store = load_store(); store.extend(to_append)
RaceLoadStore(c) ==
    /\ callers[c].pc = "scanned"
    /\ callers' = [callers EXCEPT ![c].pc = "loaded",
                                  ![c].store = ExtendStore(TheStore, callers[c].to_append)]
    /\ UNCHANGED <<storeVars, normVars, metricVars>>

\* save_store(store)
RaceSaveStore(c) ==
    /\ callers[c].pc = "loaded"
    /\ store_jsonl' = save_store(callers[c].store)
    /\ callers' = [callers EXCEPT ![c].pc = "stored"]
    /\ UNCHANGED <<hashes_json, backup, ret, normVars, metricVars>>

\* save_hashes(list(hashes)); return added, skipped
RaceSaveHashes(c) ==
    /\ callers[c].pc = "stored"
    /\ hashes_json' = save_hashes(callers[c].hashes)
    /\ callers' = [callers EXCEPT ![c].pc = "returned"]
    /\ UNCHANGED <<store_jsonl, backup, ret, normVars, metricVars>>

RaceNext ==
    \E c \in Callers :
        \/ RaceBegin(c)
        \/ RaceLoadStore(c)
        \/ RaceSaveStore(c)
        \/ RaceSaveHashes(c)

SpecRace == Init /\ [][RaceNext]_vars

\* ------------------------------------------------------ ta_core/aggregator

\* Numbers.  A float the code computes is kept as the exact fraction
\* <<numerator, denominator>> in lowest terms with a positive denominator; a
\* float rounded to k decimals is kept as the integer number of 10^-k units.
RECURSIVE Gcd(_, _)
Gcd(a, b) == IF b = 0 THEN a ELSE Gcd(b, a % b)

Abs(n) == IF n < 0 THEN -n ELSE n

Frac(n, d) == <<n \div Gcd(Abs(n), d), d \div Gcd(Abs(n), d)>>
FracLess(a, b) == a[1] * b[2] < b[1] * a[2]
FracPositive(a) == a[1] > 0

\* round(n / d * scale) to the nearest integer, a tie to the even one.
RoundHalfEven(n, d) ==
    LET q == n \div d
        r == n - q * d
    IN  IF 2 * r < d THEN q
        ELSE IF 2 * r > d THEN q + 1
        ELSE IF q % 2 = 0 THEN q ELSE q + 1

Round2(a) == RoundHalfEven(a[1] * 100, a[2])
Round4(a) == RoundHalfEven(a[1] * 10000, a[2])

\* The order of Python strings: by code point, a proper prefix first.
CodePoints ==
    <<"0", "1", "2", "3", "4", "5", "6", "7", "8", "9",
      "A", "B", "C", "D", "E", "F", "G", "H", "I", "J", "K", "L", "M",
      "N", "O", "P", "Q", "R", "S", "T", "U", "V", "W", "X", "Y", "Z",
      "a", "b", "c", "d", "e", "f", "g", "h", "i", "j", "k", "l", "m",
      "n", "o", "p", "q", "r", "s", "t", "u", "v", "w", "x", "y", "z">>
CodePoint(c) == CHOOSE i \in 1..Len(CodePoints) : CodePoints[i] = c

RECURSIVE StrLess(_, _)
StrLess(a, b) ==
    IF b = <<>> THEN FALSE
    ELSE IF a = <<>> THEN TRUE
    ELSE IF Head(a) = Head(b) THEN StrLess(Tail(a), Tail(b))
    ELSE CodePoint(Head(a)) < CodePoint(Head(b))

\* The elements of a set of strings in ascending order.
RECURSIVE SortedStrings(_)
SortedStrings(S) ==
    IF S = {} THEN <<>>
    ELSE LET least == CHOOSE x \in S : \A y \in S \ {x} : StrLess(x, y)
         IN  <<least>> \o SortedStrings(S \ {least})

SumOver(df, idx, col) ==
    LET RECURSIVE Sum(_)
        Sum(I) == IF I = {} THEN 0
                  ELSE LET i == CHOOSE j \in I : TRUE IN df[i][col] + Sum(I \ {i})
    IN  Sum(idx)

\* SafeDiv dividing by the seconds, not by the hours.
SafeDiv_perSecond(num, sec) == IF sec > 0 THEN Frac(num, sec) ELSE Frac(0, 1)

\* _safe_div(num, hours_total), hours_total being sec / 3600.
SafeDiv(num, sec) == IF sec > 0 THEN Frac(num * 3600, sec) ELSE Frac(0, 1)

\* One group of df.groupby("zona").agg(...) with its per-hour rates.
ZoneGroup(df, z) ==
    LET idx == {i \in 1..Len(df) : df[i].zona = z}
        sec == SumOver(df, idx, "duration_sec")
    IN  [zona |-> z,
         hunts |-> Cardinality(idx),
         sec_total |-> sec,
         xp_gain_per_h |-> SafeDiv(SumOver(df, idx, "xp_gain"), sec),
         raw_xp_gain_per_h |-> SafeDiv(SumOver(df, idx, "raw_xp_gain"), sec),
         supplies_per_h |-> SafeDiv(SumOver(df, idx, "supplies"), sec),
         loot_per_h |-> SafeDiv(SumOver(df, idx, "loot"), sec),
         balance_per_h |-> SafeDiv(SumOver(df, idx, "balance"), sec)]

\* InsertByBalance putting a group before the groups of equal balance.
RECURSIVE InsertByBalance_unstable(_, _)
InsertByBalance_unstable(sorted, g) ==
    IF sorted = <<>> THEN <<g>>
    ELSE IF ~FracLess(g.balance_per_h, Head(sorted).balance_per_h)
    THEN <<g>> \o sorted
    ELSE <<Head(sorted)>> \o InsertByBalance_unstable(Tail(sorted), g)

\* sort_values(by="Balance (media/h)", ascending=False, kind="stable")
RECURSIVE InsertByBalance(_, _)
InsertByBalance(sorted, g) ==
    IF sorted = <<>> THEN <<g>>
    ELSE IF FracLess(Head(sorted).balance_per_h, g.balance_per_h)
    THEN <<g>> \o sorted
    ELSE <<Head(sorted)>> \o InsertByBalance(Tail(sorted), g)

RECURSIVE SortByBalance(_, _)
SortByBalance(sorted, groups) ==
    IF groups = <<>> THEN sorted
    ELSE SortByBalance(InsertByBalance(sorted, Head(groups)), Tail(groups))

\* An output row: the renamed columns, the float ones rounded to 2 decimals
\* (kept in hundredths).
ZoneOutRow(g) ==
    [Zona |-> g.zona,
     Hunts |-> g.hunts,
     Horas |-> Round2(Frac(g.sec_total, 3600)),
     XpGainH |-> Round2(g.xp_gain_per_h),
     RawXpGainH |-> Round2(g.raw_xp_gain_per_h),
     SuppliesH |-> Round2(g.supplies_per_h),
     LootH |-> Round2(g.loot_per_h),
     BalanceH |-> Round2(g.balance_per_h)]

\* aggregate_by_zone(df): the rows of the returned frame.
aggregate_by_zone(df) ==
    IF df = <<>> THEN <<>>
    ELSE LET keys == SortedStrings({df[i].zona : i \in 1..Len(df)})
             grp == [k \in 1..Len(keys) |-> ZoneGroup(df, keys[k])]
             out == SortByBalance(<<>>, grp)
         IN  [k \in 1..Len(out) |-> ZoneOutRow(out[k])]

FracAdd(a, b) == Frac(a[1] * b[2] + b[1] * a[2], a[2] * b[2])
FracDiv(a, b) == Frac(a[1] * b[2], a[2] * b[1])
Zero == Frac(0, 1)

\* _row_hours_fallback on a row of the normalized frame: duration_sec when
\* positive, else the time from session_start to session_end when positive,
\* else 0 (the frame has no __hours and no "Session length" column).
RowHoursFallback(row) ==
    IF row.duration_sec > 0 THEN Frac(row.duration_sec, 3600)
    ELSE IF /\ DtParseOk(row.session_start)
            /\ DtParseOk(row.session_end)
            /\ DtParseSec(row.session_end) - DtParseSec(row.session_start) > 0
    THEN Frac(DtParseSec(row.session_end) - DtParseSec(row.session_start), 3600)
    ELSE Zero

\* The first of the keys that the object has, "" when it has none.
RECURSIVE FirstPresent(_, _)
FirstPresent(item, keys) ==
    IF keys = <<>> THEN ""
    ELSE IF Head(keys) \in DOMAIN item THEN Head(keys)
    ELSE FirstPresent(item, Tail(keys))

NameKeys == <<"monster", "name", "creature", "Monster", "Name">>
KillsKeys == <<"kills", "count", "qty", "n", "Count", "Kills">>

\* The loop of _parse_as_mapping over a list: a list of two or more elements
\* is (name, count); an object gives its name and count under the first
\* name key and the first count key it has; an item whose count float()
\* rejects is passed over.
RECURSIVE ParseItems(_, _)
ParseItems(out, items) ==
    IF items = <<>> THEN out
    ELSE LET item == Head(items)
             rest == Tail(items)
         IN  IF IsList(item) /\ Len(item[2]) >= 2
             THEN IF FloatOk(PyOr(item[2][2], JInt(0)))
                  THEN ParseItems((PyStr(item[2][1]) :>
                                      DictGetOr(out, PyStr(item[2][1]), 0)
                                          + Float(PyOr(item[2][2], JInt(0)))) @@ out, rest)
                  ELSE ParseItems(out, rest)
             ELSE IF IsDict(item)
             THEN LET name_key == FirstPresent(item[2], NameKeys)
                      kills_key == FirstPresent(item[2], KillsKeys)
                  IN  IF name_key # "" /\ kills_key # ""
                         /\ FloatOk(PyOr(item[2][kills_key], JInt(0)))
                      THEN ParseItems((PyStr(item[2][name_key]) :>
                                          DictGetOr(out, PyStr(item[2][name_key]), 0)
                                              + Float(PyOr(item[2][kills_key], JInt(0)))) @@ out,
                                      rest)
                      ELSE ParseItems(out, rest)
             ELSE ParseItems(out, rest)

\* _parse_as_mapping on a value that is parsed JSON.
ParseAsMapping(val) ==
    IF IsDict(val)
    THEN LET keys == {k \in DOMAIN val[2] : FloatOk(PyOr(val[2][k], JInt(0)))}
         IN  [n \in {KeyChars(k) : k \in keys} |->
                 Float(PyOr(val[2][CHOOSE k \in keys : KeyChars(k) = n], JInt(0)))]
    ELSE IF IsList(val) THEN ParseItems(<<>>, val[2])
    ELSE <<>>

\* _extract_kills_mapping_from_row: the kills_by_monster column, a mapping
\* from monster to count.
ExtractKillsMapping(row) == row.kills_by_monster

\* The loop over km.items(): the monsters of km with a positive count add
\* their count and the hours of the row.
RECURSIVE AddKills(_, _, _, _)
AddKills(acc, km, monsters, hours) ==
    IF monsters = {} THEN acc
    ELSE LET m == CHOOSE x \in monsters : TRUE
             rest == monsters \ {m}
         IN  IF km[m] <= 0 THEN AddKills(acc, km, rest, hours)
             ELSE AddKills(
                      [kills_sum |-> (m :> DictGetOr(acc.kills_sum, m, 0) + km[m])
                                         @@ acc.kills_sum,
                       hours_sum |-> (m :> FracAdd(DictGetOr(acc.hours_sum, m, Zero), hours))
                                         @@ acc.hours_sum],
                      km, rest, hours)

\* KphRow without the test that skips a row of no hours.
KphRow_anyHours(acc, row) ==
    AddKills(acc, ExtractKillsMapping(row), DOMAIN ExtractKillsMapping(row),
             RowHoursFallback(row))

\* One iteration of the loop over df.iterrows().
KphRow(acc, row) ==
    LET hours == RowHoursFallback(row)
        km == ExtractKillsMapping(row)
    IN  IF ~FracPositive(hours) THEN acc
        ELSE IF DOMAIN km = {} THEN acc
        ELSE AddKills(acc, km, DOMAIN km, hours)

RECURSIVE KphLoop(_, _)
KphLoop(acc, df) ==
    IF df = <<>> THEN acc ELSE KphLoop(KphRow(acc, Head(df)), Tail(df))

\* compute_monsters_kph_for_df(df): {monster: KPH}, KPH in ten-thousandths.
compute_monsters_kph_for_df(df) ==
    LET acc == KphLoop([kills_sum |-> <<>>, hours_sum |-> <<>>], df)
    IN  [m \in DOMAIN acc.kills_sum |->
            IF FracPositive(DictGetOr(acc.hours_sum, m, Zero))
            THEN Round4(FracDiv(Frac(acc.kills_sum[m], 1), acc.hours_sum[m]))
            ELSE 0]

\* The frames handed to aggregate_by_zone: up to MaxRows rows over two zones,
\* durations of 0 s, 30 min and 1 h 22 min, and two sets of totals.
MaxRows == 3

ZoneMetrics ==
    {[xp_gain |-> 100, raw_xp_gain |-> 90, supplies |-> 30, loot |-> 10, balance |-> -20],
     [xp_gain |-> 250, raw_xp_gain |-> 200, supplies |-> 0, loot |-> 70, balance |-> 70]}

\* Two hunts whose balance per hour, 3600/3601 and 1, differs by less than
\* 0.005.
NearTieRows ==
    {[zona |-> <<"A">>, path |-> <<>>, duration_sec |-> 3601, xp_gain |-> 1,
      raw_xp_gain |-> 1, supplies |-> 0, loot |-> 1, balance |-> 1],
     [zona |-> <<"B">>, path |-> <<>>, duration_sec |-> 3600, xp_gain |-> 1,
      raw_xp_gain |-> 1, supplies |-> 0, loot |-> 1, balance |-> 1]}

ZoneRows ==
    {[zona |-> z, path |-> <<>>, duration_sec |-> d] @@ m :
        z \in {<<"A">>, <<"B">>}, d \in {0, 1800, 4920}, m \in ZoneMetrics}
        \cup NearTieRows

ZoneFrames == UNION {[1..n -> ZoneRows] : n \in 0..MaxRows}


ZoneInit ==
    /\ fn_in \in {Call("aggregate_by_zone", df) : df \in ZoneFrames}
    /\ fn_out = NotReturned
    /\ FreshData
    /\ raw_records = <<>>
    /\ norm_out = NotCalled

\* zone_df = aggregate_by_zone(df)
AggregateByZone ==
    /\ fn_in.fn = "aggregate_by_zone"
    /\ ~fn_out.done
    /\ fn_out' = Value(aggregate_by_zone(fn_in.arg))
    /\ UNCHANGED <<fn_in, storeVars, normVars, callers>>

ZoneNext == AggregateByZone

SpecZone == ZoneInit /\ [][ZoneNext]_vars

\* The frames handed to compute_monsters_kph_for_df: up to MaxKphRows rows,
\* each with a duration or timestamps and the kills of up to two monsters.
MaxKphRows == 2

KphTimes ==
    {[duration_sec |-> 0, session_start |-> <<>>, session_end |-> <<>>],
     [duration_sec |-> 0, session_start |-> t1000, session_end |-> t1100],
     [duration_sec |-> 3600, session_start |-> t1000, session_end |-> t1100],
     [duration_sec |-> 7200, session_start |-> t1000, session_end |-> t1200]}

KphKills ==
    {rat @@ bat : rat \in {<<>>, "Rat" :> 0, "Rat" :> 5, "Rat" :> 10},
                  bat \in {<<>>, "Bat" :> 3}}

KphRows == {t @@ [kills_by_monster |-> km] : t \in KphTimes, km \in KphKills}

KphFrames == UNION {[1..n -> KphRows] : n \in 0..MaxKphRows}

KphInit ==
    /\ fn_in \in {Call("compute_monsters_kph_for_df", df) : df \in KphFrames}
    /\ fn_out = NotReturned
    /\ FreshData
    /\ raw_records = <<>>
    /\ norm_out = NotCalled

\* monsters_kph = compute_monsters_kph_for_df(zone_all)
ComputeKph ==
    /\ fn_in.fn = "compute_monsters_kph_for_df"
    /\ ~fn_out.done
    /\ fn_out' = Value(compute_monsters_kph_for_df(fn_in.arg))
    /\ UNCHANGED <<fn_in, storeVars, normVars, callers>>

KphNext == ComputeKph

SpecKph == KphInit /\ [][KphNext]_vars

\* Zone Averages on uploaded records: normalize_records, then
\* compute_monsters_kph_for_df on the processed rows.  The records are complete
\* solo hunts of one zone; each carries the kills of a list in one encoding.
KillLists ==
    {<<>>, <<<<"Rat", 0>>>>, <<<<"Rat", 5>>>>, <<<<"Rat", 5>>, <<"Rat", 3>>>>,
     <<<<"Rat", 5>>, <<"Bat", 3>>>>}

KillObjects(kills, name_key, count_key) ==
    JList([i \in 1..Len(kills) |->
              JDict((name_key :> JStr(KeyChars(kills[i][1]))) @@ (count_key :> JInt(kills[i][2])))])

KillPairs(kills) ==
    JList([i \in 1..Len(kills) |-> JList(<<JStr(KeyChars(kills[i][1])), JInt(kills[i][2])>>)])

KillObject(kills) ==
    JDict([k \in {kills[i][1] : i \in 1..Len(kills)} |->
              JInt(kills[CHOOSE i \in 1..Len(kills) :
                             /\ kills[i][1] = k
                             /\ \A j \in (i + 1)..Len(kills) : kills[j][1] # k][2])])

KillEncodings(kills) ==
    {"Killed Monsters" :> KillObjects(kills, "Name", "Count"),
     "killed_monsters" :> KillObjects(kills, "name", "count"),
     "Killed Monsters" :> KillPairs(kills),
     "Killed Monsters" :> KillObjects(kills, "monster", "kills"),
     "killed_monsters" :> KillObjects(kills, "creature", "qty"),
     "kills_by_monster" :> KillObject(kills)}

HuntTimes ==
    {"Session length" :> JStr(<<"0", "1", ":", "2", "2", "h">>),
     ("Session start" :> JStr(t1000)) @@ ("Session end" :> JStr(t1100))}

KillRecords ==
    {JDict(("Vocation" :> JStr(sK)) @@ ("Mode" :> JStr(<<"S", "o", "l", "o">>))
           @@ ("Zona" :> JStr(sZ)) @@ ("XP Gain" :> JInt(100)) @@ t @@ e) :
        t \in HuntTimes, e \in UNION {KillEncodings(kills) : kills \in KillLists}}

KillInputs == {<<r>> : r \in KillRecords} \cup {<<a, b>> : a \in KillRecords, b \in KillRecords}

KillsInit ==
    /\ raw_records \in KillInputs
    /\ norm_out = NotCalled
    /\ FreshData
    /\ NoMetrics

\* monsters_kph = compute_monsters_kph_for_df(zone_all), zone_all the
\* processed rows of the zone.
KphOfProcessed ==
    /\ norm_out.called
    /\ ~norm_out.raised
    /\ ~fn_out.done
    /\ fn_in' = Call("compute_monsters_kph_for_df", norm_out.rows)
    /\ fn_out' = Value(compute_monsters_kph_for_df(norm_out.rows))
    /\ UNCHANGED <<storeVars, normVars, callers>>

KillsNext == Normalize \/ KphOfProcessed

SpecKills == KillsInit /\ [][KillsNext]_vars

\* save_store(rows) then load_store(), on records whose texts hold quotes,
\* backslashes, newlines and blanks, over a file that held other lines.
TextRecords ==
    {JDict(<<>>),
     JDict("Zona" :> JStr(<<"a", "\n", "b">>)),
     JDict("Zona" :> JStr(<<"\"", "Z", "\\">>)),
     JDict("Zona" :> JStr(<<"\\", "n", " ">>)),
     JDict(("XP Gain" :> JInt(0 - 5)) @@ ("Level" :> Null)),
     JDict("Killed Monsters" :> JList(<<JDict("Name" :> JStr(<<" ", "R">>)), JStr(<<>>)>>))}

TextLists ==
    {<<>>} \cup {<<a>> : a \in TextRecords} \cup {<<a, b>> : a \in TextRecords, b \in TextRecords}

TextFilesBefore ==
    {<<>>, <<GarbageLine>>, <<JsonDumps(rP), GarbageLine, JsonDumps(rA)>>}

TextInit ==
    /\ fn_in \in {Call("save_store", [file |-> f, rows |-> rows]) :
                     f \in TextFilesBefore, rows \in TextLists}
    /\ fn_out = NotReturned
    /\ FreshData
    /\ raw_records = <<>>
    /\ norm_out = NotCalled

\* save_store(rows)
SaveStoreStep ==
    /\ fn_in.fn = "save_store"
    /\ fn_in' = Call("load_store", [file |-> SaveStoreText(fn_in.arg.file, fn_in.arg.rows),
                                    rows |-> fn_in.arg.rows])
    /\ UNCHANGED <<fn_out, storeVars, normVars, callers>>

\* load_store()
LoadStoreStep ==
    /\ fn_in.fn = "load_store"
    /\ ~fn_out.done
    /\ fn_out' = Value(LoadStoreText(fn_in.arg.file))
    /\ UNCHANGED <<fn_in, storeVars, normVars, callers>>

TextNext == SaveStoreStep \/ LoadStoreStep

SpecText == TextInit /\ [][TextNext]_vars

\* _get on records that hold, under each alias of a field, nothing, None,
\* "", 0 or a text of their own; "note" is a field without aliases.
GetFields == {"session_start", "xp_gain", "mode", "note"}

AliasValues(k) == {Null, JStr(<<>>), JInt(0), JStr(<<"v">> \o k)}

KeyTexts ==
    ("Session start" :> <<"1">>) @@ ("session_start" :> <<"2">>) @@ ("Start" :> <<"3">>)
        @@ ("start" :> <<"4">>) @@ ("XP Gain" :> <<"1">>) @@ ("xp_gain" :> <<"2">>)
        @@ ("XP" :> <<"3">>) @@ ("Xp Gain" :> <<"4">>) @@ ("mode" :> <<"1">>)
        @@ ("Mode" :> <<"2">>) @@ ("note" :> <<"1">>)

GetRecords(field) ==
    LET keys == SeqToSet(AliasesOf(field))
    IN  UNION {[present -> UNION {AliasValues(KeyTexts[k]) : k \in present}] :
                  present \in SUBSET keys}

GetInit ==
    /\ fn_in \in {Call("_get", [rec |-> r, field |-> f]) :
                     f \in GetFields, r \in UNION {GetRecords(g) : g \in GetFields}}
    /\ fn_out = NotReturned
    /\ FreshData
    /\ raw_records = <<>>
    /\ norm_out = NotCalled

\* session_start = _get(rec, "session_start"), and so on
GetField ==
    /\ fn_in.fn = "_get"
    /\ ~fn_out.done
    /\ fn_out' = Value(Get(fn_in.arg.rec, fn_in.arg.field))
    /\ UNCHANGED <<fn_in, storeVars, normVars, callers>>

GetNext == GetField

SpecGet == GetInit /\ [][GetNext]_vars

\* -------------------------------------------------------- ta_core/bestiary

nHarmless == <<"H", "a", "r", "m", "l", "e", "s", "s">>
nTrivial == <<"T", "r", "i", "v", "i", "a", "l">>
nEasy == <<"E", "a", "s", "y">>
nMedium == <<"M", "e", "d", "i", "u", "m">>
nHard == <<"H", "a", "r", "d">>
nChallenging == <<"C", "h", "a", "l", "l", "e", "n", "g", "i", "n", "g">>

DIFF_TO_REQ ==
    (nHarmless :> 25) @@ (nTrivial :> 250) @@ (nEasy :> 500)
        @@ (nMedium :> 1000) @@ (nHard :> 2500) @@ (nChallenging :> 5000)

VALID_DIFFS == DOMAIN DIFF_TO_REQ

\* str.capitalize(): the first character in upper case, the rest in lower.
UpperChar(c) ==
    IF \E u \in DOMAIN UpperToLower : UpperToLower[u] = c
    THEN CHOOSE u \in DOMAIN UpperToLower : UpperToLower[u] = c
    ELSE c
Capitalize(chars) ==
    IF chars = <<>> THEN <<>> ELSE <<UpperChar(Head(chars))>> \o Lower(Tail(chars))

\* normalize_diff testing the text as given, without strip().
normalize_diff_noStrip(diff) ==
    IF ~Truthy(diff) THEN Null
    ELSE IF \E v \in VALID_DIFFS : Lower(v) = Lower(Capitalize(diff[2]))
         THEN JStr(CHOOSE v \in VALID_DIFFS : Lower(v) = Lower(Capitalize(diff[2])))
         ELSE Null

\* normalize_diff: the canonical name of a difficulty, None when unknown.
normalize_diff(diff) ==
    IF ~Truthy(diff) THEN Null
    ELSE IF \E v \in VALID_DIFFS : Lower(v) = Lower(Capitalize(Strip(diff[2])))
         THEN JStr(CHOOSE v \in VALID_DIFFS : Lower(v) = Lower(Capitalize(Strip(diff[2]))))
         ELSE Null

required_kills_for_diff(diff) ==
    IF IsNull(normalize_diff(diff)) THEN Null ELSE JInt(DIFF_TO_REQ[normalize_diff(diff)[2]])

Max(a, b) == IF a >= b THEN a ELSE b

\* compute_eta: None, or the hours as a fraction.
compute_eta(required, current, kph) ==
    IF IsNull(required) \/ ~FracPositive(kph) THEN Null
    ELSE LET remain == Max(0, required[2] - Max(0, current))
         IN  IF remain > 0 THEN FracDiv(Frac(remain, 1), kph) ELSE Zero

\* make_bestiary_row: the BestiaryInfo it builds.
make_bestiary_row(monster, kph, difficulty, current_kills) ==
    [monster |-> monster,
     difficulty |-> normalize_diff(difficulty),
     required_kills |-> required_kills_for_diff(difficulty),
     current_kills |-> current_kills,
     kph |-> kph,
     hours_to_complete |-> compute_eta(required_kills_for_diff(difficulty), current_kills, kph)]

\* The arguments of make_bestiary_row: the six names in several spellings,
\* texts that are no difficulty, None; rates and kill counts around the
\* thresholds.
Difficulties ==
    {Null, JStr(<<>>), JStr(nHarmless), JStr(nTrivial), JStr(nEasy), JStr(nMedium),
     JStr(nHard), JStr(nChallenging), JStr(<<"m", "e", "d", "i", "u", "m">>), JStr(<<"H", "A", "R", "D">>),
     JStr(<<" ", "M", "e", "d", "i", "u", "m", " ">>), JStr(<<"M", "e", "d", "i", "u", "m", "s">>), JStr(<<"B", "o", "s", "s">>)}

Rates == {Frac(-1, 1), Zero, Frac(5, 2), Frac(50, 1)}

KillCounts == {-3, 0, 400, 1000, 6000}

EtaInit ==
    /\ fn_in \in {Call("make_bestiary_row",
                       [monster |-> "Rat", kph |-> k, difficulty |-> d, current_kills |-> c]) :
                     k \in Rates, d \in Difficulties, c \in KillCounts}
    /\ fn_out = NotReturned
    /\ FreshData
    /\ raw_records = <<>>
    /\ norm_out = NotCalled

\* out[m] = make_bestiary_row(m, kph, diff, curr)
MakeBestiaryRow ==
    /\ fn_in.fn = "make_bestiary_row"
    /\ ~fn_out.done
    /\ fn_out' = Value(make_bestiary_row(fn_in.arg.monster, fn_in.arg.kph,
                                         fn_in.arg.difficulty, fn_in.arg.current_kills))
    /\ UNCHANGED <<fn_in, storeVars, normVars, callers>>

EtaNext == MakeBestiaryRow

SpecEta == EtaInit /\ [][EtaNext]_vars

\* ------------------------------------------------- claims on the normalizer

Returned == norm_out.called /\ ~norm_out.raised

ProcessedRowOk(row) ==
    row.has_all_meta /\ row.zona # <<>> /\ row.duration_sec > 0

\* C4: for every list of raw records normalize_records puts each input
\* record in exactly one of its outputs (processed, pending), the two row
\* counts sum to the number of input records, and every processed row has
\* has_all_meta = True, a non-empty zona and duration_sec > 0.
PartitionTotality ==
    norm_out.called =>
        /\ ~norm_out.raised
        /\ Len(norm_out.rows) + Len(norm_out.pendings) = Len(raw_records)
        /\ \A x \in SeqToSet(raw_records) :
              /\ Occurrences(SourcesOf(norm_out.rows), x)
                   + Occurrences(SourcesOf(norm_out.pendings), x)
                 = Occurrences(raw_records, x)
              /\ ~(x \in SeqToSet(SourcesOf(norm_out.rows))
                   /\ x \in SeqToSet(SourcesOf(norm_out.pendings)))
        /\ \A row \in SeqToSet(norm_out.rows) : ProcessedRowOk(row)

\* The same partition property on the calls that return: what is left of C4
\* once the lists on which the call raises are set aside.
PartitionTotalityOnReturn ==
    Returned =>
        /\ Len(norm_out.rows) + Len(norm_out.pendings) = Len(raw_records)
        /\ \A x \in SeqToSet(raw_records) :
              /\ Occurrences(SourcesOf(norm_out.rows), x)
                   + Occurrences(SourcesOf(norm_out.pendings), x)
                 = Occurrences(raw_records, x)
              /\ ~(x \in SeqToSet(SourcesOf(norm_out.rows))
                   /\ x \in SeqToSet(SourcesOf(norm_out.pendings)))
        /\ \A row \in SeqToSet(norm_out.rows) : ProcessedRowOk(row)

\* C8: a raw record with no value under any alias of xp_gain, or none under
\* any alias of raw_xp_gain, gets has_all_meta = False and lands in the
\* pending partition.
XpPresenceRequired ==
    Returned =>
        \A row \in SeqToSet(norm_out.rows) \cup SeqToSet(norm_out.pendings) :
            LET r == row.source_raw[2]
            IN  (Get(r, "xp_gain") = Null \/ Get(r, "raw_xp_gain") = Null)
                    => ~row.has_all_meta /\ row \in SeqToSet(norm_out.pendings)

sSolo == <<"s", "o", "l", "o">>
sTeamHunt == <<"t", "e", "a", "m", " ", "h", "u", "n", "t">>

ReconciliationKeys ==
    SeqToSet(ALIASES["balance_real"]) \cup SeqToSet(ALIASES["transfer_text"])

\* The record carries an explicit balance_real value or transfer notes.
HasReconciliation(r) ==
    Get(r, "balance_real") # Null \/ Get(r, "transfer_text") # Null

WithoutReconciliation(r) == [k \in DOMAIN r \ ReconciliationKeys |-> r[k]]

\* Rows of the given modes are processed only with reconciliation evidence,
\* and the class of a solo row does not depend on that evidence.
ReconciliationRule(modes) ==
    Returned =>
        /\ \A row \in SeqToSet(norm_out.rows) :
              Lower(row.mode) \in modes => HasReconciliation(row.source_raw[2])
        /\ \A row \in SeqToSet(norm_out.rows) \cup SeqToSet(norm_out.pendings) :
              Lower(row.mode) = sSolo =>
                  LET bare == NormalizeRow(WithoutReconciliation(row.source_raw[2]))
                  IN  /\ RowIsPending(bare) = RowIsPending(row)
                      /\ bare.has_all_meta = row.has_all_meta

\* C9 as stated: a row whose mode is "duo", "th" or "team hunt" (case-
\* insensitively) is processed only if the record carries a balance_real
\* value or transfer notes; a solo row's class does not depend on them.
MultiModeNeedsReconciliation ==
    ReconciliationRule(MultiModes \cup {sTeamHunt})

\* C9 amended: the rule covers the modes "duo" and "th" only; a "team hunt"
\* row is classified without it.
DuoThNeedsReconciliation == ReconciliationRule(MultiModes)

\* C9 witness: a duo/th row reached the processed partition.
DuoThProcessedReached ==
    /\ Returned
    /\ \E row \in SeqToSet(norm_out.rows) :
          Lower(row.mode) \in MultiModes /\ HasReconciliation(row.source_raw[2])

AllRows == SeqToSet(norm_out.rows) \cup SeqToSet(norm_out.pendings)

sMin == <<"m", "i", "n">>

\* The seconds a duration text stands for, read as "HH:MMh", "<H>h <M>min",
\* "<H>h" or "<M>min"; empty for any other text.
StatedSeconds(s) ==
    (IF DurHmhMatch(s) THEN {DurHmhValue(s)} ELSE {})
    \cup {DigitsToNat(SubSeq(s, 1, i - 1)) * 3600
              + DigitsToNat(SubSeq(s, i + 2, Len(s) - 3)) * 60 :
            i \in {j \in 2..(Len(s) - 5) :
                     /\ AllDigits(SubSeq(s, 1, j - 1))
                     /\ s[j] = "h" /\ s[j + 1] = " "
                     /\ AllDigits(SubSeq(s, j + 2, Len(s) - 3))
                     /\ SubSeq(s, Len(s) - 2, Len(s)) = sMin}}
    \cup (IF Len(s) >= 2 /\ AllDigits(SubSeq(s, 1, Len(s) - 1)) /\ s[Len(s)] = "h"
          THEN {DigitsToNat(SubSeq(s, 1, Len(s) - 1)) * 3600} ELSE {})
    \cup (IF Len(s) >= 4 /\ AllDigits(SubSeq(s, 1, Len(s) - 3))
             /\ SubSeq(s, Len(s) - 2, Len(s)) = sMin
          THEN {DigitsToNat(SubSeq(s, 1, Len(s) - 3)) * 60} ELSE {})

NoTimestamps(r) == Get(r, "session_start") = Null /\ Get(r, "session_end") = Null

\* C14: a duration text "HH:MMh", "<H>h <M>min", "<H>h" or "<M>min" gives
\* duration_sec = H*3600 + M*60 whatever the timestamps are; a record with
\* a duration of 0 or none and no timestamps gets duration_sec = 0.
DurationTextHonoured ==
    Returned =>
        \A row \in AllRows :
            \E d \in {Get(row.source_raw[2], "duration")} :
                /\ IsStr(d) => \A sec \in StatedSeconds(Strip(d[2])) : row.duration_sec = sec
                /\ (d \in {Null, JInt(0)} /\ NoTimestamps(row.source_raw[2]))
                       => row.duration_sec = 0

\* C15: duration_sec is never negative: a negative integer duration, or an
\* end earlier than the start, gives 0.
DurationNonNegative ==
    Returned => \A row \in AllRows : row.duration_sec >= 0

\* C16: normalize_records returns for every list of records; a text that is
\* no number coerces to 0.
NeverRaises == norm_out.called => ~norm_out.raised

GetReturned == fn_in.fn = "_get" /\ fn_out.done

\* The positions, in the field's alias order, of the aliases whose value in
\* the record is neither null nor the empty string.
UsableAliases(rec, field) ==
    {i \in 1..Len(AliasesOf(field)) :
        /\ AliasesOf(field)[i] \in DOMAIN rec
        /\ ~IsNull(rec[AliasesOf(field)[i]])
        /\ ~(IsStr(rec[AliasesOf(field)[i]]) /\ rec[AliasesOf(field)[i]][2] = <<>>)}

\* C24: _get returns the value of the first alias, in the field's alias
\* order, whose value is neither null nor the empty string, and None when no
\* alias has such a value.
GetFirstUsableAlias ==
    GetReturned =>
        \E usable \in {UsableAliases(fn_in.arg.rec, fn_in.arg.field)} :
            IF usable = {} THEN fn_out.value = Null
            ELSE \E i \in usable :
                    /\ \A j \in usable : i <= j
                    /\ fn_out.value = fn_in.arg.rec[AliasesOf(fn_in.arg.field)[i]]

\* "Session start" is null, "session_start" is "", and "Start" comes before
\* "start": the value under "Start" was returned.
ThirdAliasReturned ==
    /\ GetReturned
    /\ fn_in.arg.field = "session_start"
    /\ DOMAIN fn_in.arg.rec = {"Session start", "session_start", "Start", "start"}
    /\ fn_in.arg.rec["Session start"] = Null
    /\ fn_in.arg.rec["session_start"] = JStr(<<>>)
    /\ fn_in.arg.rec["Start"] = JInt(0)
    /\ fn_in.arg.rec["start"] = JStr(<<"v", "4">>)
    /\ fn_out.value = JInt(0)

\* ------------------------------------------------------ claims on the Store

\* How many stored records the upload with digest h appended.
StampCount(store, h) == Cardinality({i \in 1..Len(store) : UploadOf(store[i]) = h})

\* The records an upload of payload b appends to an empty Store.
UploadedRecords(b) ==
    load_store(add_uploaded_files(EmptyStoreFile, EmptyHashesFile, <<b>>).store_jsonl)

\* C1: in every Store and ledger state and for every payload b, uploading b
\* twice in one batch, or in a second call right after the first, leaves the
\* Store as one upload of b leaves it: the second occurrence adds no record.
IdempotentDedup ==
    \A b \in Payloads :
        \E once \in {add_uploaded_files(store_jsonl, hashes_json, <<b>>)} :
            /\ add_uploaded_files(store_jsonl, hashes_json, <<b, b>>).store_jsonl
                   = once.store_jsonl
            /\ \E again \in {add_uploaded_files(once.store_jsonl, once.hashes_json, <<b>>)} :
                   again.added = 0 /\ again.store_jsonl = once.store_jsonl

\* fP was uploaded twice in one batch: one record added, one file skipped.
SameBatchDuplicateSkipped ==
    /\ ret.op = "upload"
    /\ ret.arg = <<"fP", "fP">>
    /\ ret.added = 1
    /\ ret.skipped = 1
    /\ StampCount(TheStore, Sha256("fP")) = 1

\* The records payload b appended are all still in the Store.
RecordsStillStored(b) ==
    /\ UploadedRecords(b) # <<>>
    /\ \A x \in SeqToSet(UploadedRecords(b)) : x \in SeqToSet(TheStore)

\* C2 as stated: after any operations, an upload of a payload whose records
\* are still in the Store appends none of them again.
ReuploadNeverDuplicates ==
    [][\A b \in Payloads :
          (ret'.op = "upload" /\ b \in SeqToSet(ret'.arg) /\ RecordsStillStored(b))
              => StampCount(TheStore', Sha256(b)) = StampCount(TheStore, Sha256(b))]_vars

\* C2: an upload appends no record of a payload whose digest is in the
\* ledger, whatever operations came before.
ReuploadSkippedWhileInLedger ==
    [][\A b \in Payloads :
          (ret'.op = "upload" /\ Sha256(b) \in TheLedger)
              => StampCount(TheStore', Sha256(b)) = StampCount(TheStore, Sha256(b))]_vars

\* fP, uploaded in an earlier call and still stored, was uploaded again on its
\* own and skipped.
LaterReuploadSkipped ==
    /\ ret.op = "upload"
    /\ ret.arg = <<"fP">>
    /\ ret.added = 0
    /\ ret.skipped = 1
    /\ Sha256("fP") \in TheLedger
    /\ RecordsStillStored("fP")

\* Every stored record was appended by an upload whose digest is in the ledger.
StoreBacked == \A i \in 1..Len(TheStore) : UploadOf(TheStore[i]) \in TheLedger

\* Every digest in the ledger has a record in the Store.
LedgerBacked == \A h \in TheLedger : StampCount(TheStore, h) > 0

\* C3 as stated: the ledger and the Store agree in every reachable state.
LedgerStoreAgree == StoreBacked /\ LedgerBacked

LocalOps == {"upload", "save_row", "delete_hunt", "delete_processed", "delete_pending"}

\* C3: upload, row edit, row delete and bulk delete keep every stored record
\* backed by a digest in the ledger.
LocalOpsKeepStoreBacked ==
    [][(ret'.op \in LocalOps /\ StoreBacked) => StoreBacked']_vars

\* After a row delete the remaining records are backed by the ledger, which
\* also holds a digest no record is left of.
DeleteLeftDigestBehind ==
    /\ ret.op = "delete_hunt"
    /\ TheStore # <<>>
    /\ StoreBacked
    /\ ~LedgerBacked

\* The records of a list that normalize_records classifies as pending, and
\* those it classifies as processed.
PendingRecords(store) == SeqToSet(SourcesOf(normalize_records(store).pendings))
ProcessedRecords(store) == SeqToSet(SourcesOf(normalize_records(store).rows))

\* The list under "store" of a named JSON backup.
SnapshotStore(name) == IterItems(NamedBackup(name)[2][2]["store"])

\* C5: a partial import that returns leaves in the Store exactly the records
\* that were pending in it and the records that are processed in the
\* snapshot.
PartialImportExact ==
    [][(ret'.op = "import_partial" /\ ~ret'.raised)
          => SeqToSet(TheStore')
                 = PendingRecords(TheStore) \cup ProcessedRecords(SnapshotStore(ret'.arg))]_vars

\* C6 as stated: a full import of the kept export, v2 zip or v1 JSON, leaves
\* the Store and the ledger as they were when the export was made.
RoundTripRestoresBoth ==
    [][(ret'.op = "import_full" /\ ret'.arg = "kept")
          => TheStore' = backup.store /\ TheLedger' = backup.ledger]_vars

\* C6: a full import of the kept export restores the Store; it restores the
\* ledger from a v2 zip and empties it after a v1 JSON export.
RoundTripRestoresStore ==
    [][(ret'.op = "import_full" /\ ret'.arg = "kept")
          => /\ ~ret'.raised
             /\ TheStore' = backup.store
             /\ TheLedger' = IF IsZip(backup.file) THEN backup.ledger ELSE {}]_vars

\* The v2 zip made of a Store with records and a ledger with digests was
\* imported, and the Store and the ledger are those of the export again.
ZipRoundTripDone ==
    /\ ret.op = "import_full"
    /\ ret.arg = "kept"
    /\ IsZip(backup.file)
    /\ backup.store # <<>>
    /\ backup.ledger # {}
    /\ TheStore = backup.store
    /\ TheLedger = backup.ledger

\* The named backups of unexpected shape: JSON that is neither a list nor an
\* object with a list under "store", and a zip without the expected entries.
UnexpectedShapes == {"bkNumber", "bkStoreNotList", "bkStoreText", "bkZipOther"}

\* C7: an import of a backup of unexpected shape raises and leaves both files
\* as they were.
BadShapeChangesNothing ==
    [][(ret'.op \in {"import_full", "import_partial"} /\ ret'.arg \in UnexpectedShapes)
          => /\ ret'.raised
             /\ store_jsonl' = store_jsonl
             /\ hashes_json' = hashes_json]_vars

\* A payload whose bytes are no JSON, or whose JSON is neither an object nor
\* an array.
IsMalformed(b) ==
    \/ JsonLoads(b)[1] = "error"
    \/ ~IsList(JsonLoads(b)[2]) /\ ~IsDict(JsonLoads(b)[2])

\* The top-level elements of a payload: those of its array, or its object.
TopLevel(b) ==
    IF IsMalformed(b) THEN <<>>
    ELSE IF IsList(JsonLoads(b)[2]) THEN JsonLoads(b)[2][2]
    ELSE <<JsonLoads(b)[2]>>

\* The records of the upload with digest h among those appended to before,
\* in order and without the history key.
AppendedBy(before, after, h) ==
    LET new == SubSeq(after, Len(before) + 1, Len(after))
        mine == SelectSeq(new, LAMBDA x : UploadOf(x) = h)
    IN  [i \in 1..Len(mine) |-> Unstamp(mine[i])]

UploadsProcessed == ret.op = "process_uploads"

\* C17: in every upload, a file that is not in the ledger yet is consumed as
\* a whole: either every top-level element of its payload is appended as a
\* record and its digest is recorded, or no record of it is appended and its
\* digest is not recorded.
FilesConsumedWhole ==
    [][UploadsProcessed' =>
          \A b \in SeqToSet(ret'.arg) :
              Sha256(b) \notin TheLedger =>
                  \/ /\ AppendedBy(TheStore, TheStore', Sha256(b)) = TopLevel(b)
                     /\ Sha256(b) \in TheLedger'
                  \/ /\ AppendedBy(TheStore, TheStore', Sha256(b)) = <<>>
                     /\ Sha256(b) \notin TheLedger']_vars

\* The malformed files of a batch, and its duplicates: the well-formed files
\* whose digest is in the ledger or that stand earlier in the batch.
MalformedIn(files) == {i \in DOMAIN files : IsMalformed(files[i])}
DuplicatesIn(ledger, files) ==
    {i \in DOMAIN files :
        /\ ~IsMalformed(files[i])
        /\ Sha256(files[i]) \in ledger \/ \E j \in 1..(i - 1) : files[j] = files[i]}

\* The number of files the log reports as duplicates.
LoggedDuplicates(logs) ==
    IF \E i \in DOMAIN logs : logs[i][1] = "Ignored duplicate file(s)"
    THEN (CHOOSE e \in SeqToSet(logs) : e[1] = "Ignored duplicate file(s)")[2]
    ELSE 0

\* C18: process_uploads reports the m malformed files of a batch as failures
\* and the d duplicates as duplicates, in separate counts.
MalformedCountedApart ==
    [][UploadsProcessed' =>
          /\ fn_out'.value.fail = Cardinality(MalformedIn(ret'.arg))
          /\ LoggedDuplicates(fn_out'.value.logs)
                 = Cardinality(DuplicatesIn(TheLedger, ret'.arg))]_vars

\* What the code reports: malformed files and duplicates in one count.
SkippedIsMalformedPlusDuplicates ==
    [][UploadsProcessed' =>
          ret'.skipped = Cardinality(MalformedIn(ret'.arg))
                             + Cardinality(DuplicatesIn(TheLedger, ret'.arg))]_vars

\* The records a payload gives when it is uploaded on its own.
RecordsAlone(sfile, hfile, b) ==
    AppendedBy(load_store(sfile),
               load_store(add_uploaded_files(sfile, hfile, <<b>>).store_jsonl), Sha256(b))

\* The well-formed new payloads that satisfy Q are accepted wherever they
\* stand in a batch: the records of each are appended, as they are when it
\* is uploaded alone, and its digest is added to the ledger.
AcceptedInBatch(Q(_)) ==
    UploadsProcessed' =>
        \A b \in SeqToSet(ret'.arg) :
            (~IsMalformed(b) /\ Sha256(b) \notin TheLedger /\ Q(b)) =>
                /\ AppendedBy(TheStore, TheStore', Sha256(b))
                       = RecordsAlone(store_jsonl, hashes_json, b)
                /\ Sha256(b) \in TheLedger'

AnyPayload(b) == TRUE
HoldsARecord(b) == \E i \in DOMAIN TopLevel(b) : IsDict(TopLevel(b)[i])

\* C19 as stated: in a batch that mixes malformed, duplicate and new files,
\* every well-formed new payload is accepted, wherever it stands.
ValidNewAccepted == [][AcceptedInBatch(AnyPayload)]_vars

\* C19: the same for every well-formed new payload that holds at least one
\* object.
ValidNewWithRecordAccepted == [][AcceptedInBatch(HoldsARecord)]_vars

\* After fP was uploaded, the batch of a malformed file, fP again and the new
\* fL: two files skipped, the two records of fL stored, its digest recorded.
NewFileAfterBadAndDuplicate ==
    /\ UploadsProcessed
    /\ ret.arg = <<"fBad", "fP", "fL">>
    /\ ret.added = 2
    /\ ret.skipped = 2
    /\ RecordsStillStored("fL")
    /\ Sha256("fL") \in TheLedger

\* The payloads that hold objects only.
ObjectsOnly(b) ==
    /\ ~IsMalformed(b)
    /\ \A i \in DOMAIN load_json_files(<<b>>) : IsDict(load_json_files(<<b>>)[i])

\* C20: a new payload adds one record per object it holds: N for an object
\* whose "hunts" key holds an array of N objects, as for the bare array, one
\* for a plain object, N for an array of N objects.
WrapperAddsEachHunt ==
    [][UploadsProcessed' =>
          \A b \in SeqToSet(ret'.arg) :
              (ObjectsOnly(b) /\ Sha256(b) \notin TheLedger) =>
                  AppendedBy(TheStore, TheStore', Sha256(b)) = load_json_files(<<b>>)]_vars

\* C23: save_store(rows) followed by load_store() returns the records
\* written, in order and with the same content, whatever the file held
\* before.
SaveLoadRoundTrip ==
    (fn_in.fn = "load_store" /\ fn_out.done) => fn_out.value = fn_in.arg.rows

\* Two records, one with a newline in a text, were written over a file of
\* other lines and read back.
TextWithNewlineReadBack ==
    /\ fn_in.fn = "load_store"
    /\ fn_out.done
    /\ Len(fn_out.value) = 2
    /\ JDict("Zona" :> JStr(<<"a", "\n", "b">>)) \in SeqToSet(fn_out.value)
    /\ Len(fn_in.arg.file) = 2

RaceOver == \A c \in Callers : callers[c].pc = "returned"

\* The callers that wrote the files.
Writers == {c \in Callers : callers[c].to_append # <<>>}

\* C25 as stated: after two concurrent uploads of different payloads the
\* last writer wins as a whole: the Store and the ledger are both as one
\* caller wrote them, and the ledger holds a digest only if the records of
\* that upload are in the Store.
LastWriterWinsWhole ==
    (RaceOver /\ Writers # {}) =>
        /\ \E c \in Writers :
              TheStore = callers[c].store /\ TheLedger = callers[c].hashes
        /\ LedgerBacked

\* C25: the last writer of each file wins: the Store is as one caller wrote
\* it, the list that caller read followed by its records, and the ledger is
\* as one caller wrote it, who may be the other.
LastWriterWinsPerFile ==
    (RaceOver /\ Writers # {}) =>
        /\ \E c \in Writers :
              /\ TheStore = callers[c].store
              /\ SubSeq(TheStore, Len(TheStore) - Len(callers[c].to_append) + 1,
                        Len(TheStore)) = callers[c].to_append
        /\ \E d \in Writers : TheLedger = callers[d].hashes

\* Both callers wrote; the Store is as B wrote it, with A's records before
\* B's, and the ledger as A wrote it, without B's digest.
StoreOfOneLedgerOfOther ==
    /\ RaceOver
    /\ Writers = Callers
    /\ TheStore = callers["B"].store
    /\ Len(TheStore) = Len(callers["A"].to_append) + Len(callers["B"].to_append)
    /\ TheLedger = callers["A"].hashes
    /\ TheLedger # callers["B"].hashes

\* The first place of a payload in a batch.
FirstPlace(files, b) == CHOOSE i \in DOMAIN files : files[i] = b /\ \A j \in 1..(i - 1) : files[j] # b

\* The records after the first n, the payloads they come from in the order
\* of the batch.
InBatchOrder(store, n, files) ==
    \A p, q \in (n + 1)..Len(store) :
        p < q =>
            \E a, b \in SeqToSet(files) :
                /\ UploadOf(store[p]) = Sha256(a)
                /\ UploadOf(store[q]) = Sha256(b)
                /\ FirstPlace(files, a) <= FirstPlace(files, b)

\* C26: an upload keeps the records of the Store as they are and in place,
\* and puts after them the newly accepted records, in batch order; when it
\* accepts no record it writes neither the Store nor the ledger.
UploadAppendsOnly ==
    [][UploadsProcessed' =>
          /\ Len(TheStore') = Len(TheStore) + ret'.added
          /\ SubSeq(TheStore', 1, Len(TheStore)) = TheStore
          /\ InBatchOrder(TheStore', Len(TheStore), ret'.arg)
          /\ \A b \in SeqToSet(ret'.arg) :
                Sha256(b) \notin TheLedger =>
                    AppendedBy(TheStore, TheStore', Sha256(b))
                        = RecordsAlone(EmptyStoreFile, EmptyHashesFile, b)
          /\ ret'.added = 0 => (store_jsonl' = store_jsonl /\ hashes_json' = hashes_json)]_vars

\* fL and then fP were uploaded in one batch onto a Store that held a
\* record: the record is still first, then the two of fL, then that of fP.
TwoFilesAppendedInOrder ==
    /\ UploadsProcessed
    /\ ret.arg = <<"fL", "fP">>
    /\ ret.added = 3
    /\ Len(TheStore) = 4
    /\ UploadOf(TheStore[1]) = Sha256("fHunts")
    /\ UploadOf(TheStore[3]) = Sha256("fL")
    /\ UploadOf(TheStore[4]) = Sha256("fP")

\* C27: after an upload, the digest of a file is added to the persisted
\* ledger by this call exactly when a record parsed from the file was
\* appended to the Store by this call; a payload that holds no object leaves
\* no digest, whatever other files are in the batch.
HashRecordedIffRecordAppended ==
    [][UploadsProcessed' =>
          \A b \in SeqToSet(ret'.arg) :
              (Sha256(b) \in TheLedger' \ TheLedger)
                  <=> (AppendedBy(TheStore, TheStore', Sha256(b)) # <<>>)]_vars

\* How normalize_records classifies a stored record: its row is among the
\* processed rows, or among the pending rows.
ClassifiedProcessed(rec) == Len(normalize_records(<<rec>>).rows) = 1
ClassifiedPending(rec) == Len(normalize_records(<<rec>>).pendings) = 1

\* C28: "Delete processed" removes from the Store every record classified
\* processed and leaves every record classified pending in place, "Delete
\* pending" does the converse, and neither touches the ledger.
BulkDeleteByClass ==
    [][/\ ret'.op = "delete_processed" =>
            /\ TheStore' = SelectSeq(TheStore, ClassifiedPending)
            /\ hashes_json' = hashes_json
       /\ ret'.op = "delete_pending" =>
            /\ TheStore' = SelectSeq(TheStore, ClassifiedProcessed)
            /\ hashes_json' = hashes_json]_vars

SaveStep == ret'.op = "save_row"

\* The pending row Save was pressed on, and what the widgets held.
SavedRow == normalize_records(TheStore).pendings[ret'.arg[1]]
SavedChoice == ret'.arg[2]

\* The place of the stored record Save patched, 0 when it found none.
PatchedPlace ==
    IF SaveHits(TheStore, SavedRow) = {} THEN 0
    ELSE CHOOSE i \in SaveHits(TheStore, SavedRow) : \A j \in SaveHits(TheStore, SavedRow) : i <= j

\* The row normalize_records derives from the patched record shows what was
\* saved, and the other records are as before.
SaveShows(Q(_)) ==
    (SaveStep /\ PatchedPlace # 0 /\ Q(TheStore[PatchedPlace])) =>
        LET row == NormalizeRow(TheStore'[PatchedPlace][2])
        IN  /\ row.vocation = SavedChoice[1]
            /\ row.mode = SavedChoice[2]
            /\ row.zona = SavedChoice[3]
            /\ row.level_bucket = SavedChoice[4]
            /\ Len(TheStore') = Len(TheStore)
            /\ \A k \in 1..Len(TheStore) : k # PatchedPlace => TheStore'[k] = TheStore[k]

AnyRecord(rec) == TRUE

\* C29: after Save patches a stored record, the next normalize_records
\* yields for it a row whose vocation, mode, zona and level_bucket are the
\* saved values, whatever keys the record held before, lowercase ones that
\* held a value included; every other stored record is unchanged.
SavedValuesShown == [][SaveShows(AnyRecord)]_vars

\* The identity key of the row normalize_records derives from a record.
KeyOfDerivedRow(rec) == KeyFromRow(NormalizeRow(rec[2]))

\* The pending row "Delete hunt" was pressed on.
DeletedRow == normalize_records(TheStore).pendings[ret'.arg[1]]

\* C30: the identity key computed from a stored record is the key of the
\* row normalize_records derives from it, for every record shape the
\* normalizer accepts, so that deleting a pending row by its key removes the
\* record the row was derived from and leaves every record with a different
\* key unchanged.
RecordKeyIsRowKey ==
    [][/\ \A i \in 1..Len(TheStore) :
             ~ItemRaises(TheStore[i]) => KeyFromItem(TheStore[i][2]) = KeyOfDerivedRow(TheStore[i])
       /\ ret'.op = "delete_hunt" =>
             /\ \A i \in 1..Len(TheStore') : TheStore'[i] # DeletedRow.source_raw
             /\ TheStore' = SelectSeq(TheStore, LAMBDA rec : KeyOfDerivedRow(rec) # KeyFromRow(DeletedRow))]_vars

\* ------------------------------------------------- claims on the aggregator

ZoneReturned == fn_in.fn = "aggregate_by_zone" /\ fn_out.done

RowsOfZone(df, z) == {i \in 1..Len(df) : df[i].zona = z}

SecondsOfZone(df, z) == SumOver(df, RowsOfZone(df, z), "duration_sec")

\* sum(metric) / hours_total in hundredths, 0 when hours_total = 0.
ExpectedRate(df, z, col) ==
    IF SecondsOfZone(df, z) > 0
    THEN RoundHalfEven(SumOver(df, RowsOfZone(df, z), col) * 3600 * 100, SecondsOfZone(df, z))
    ELSE 0

RatesAsStated(df, o) ==
    /\ o.Hunts = Cardinality(RowsOfZone(df, o.Zona))
    /\ o.XpGainH = ExpectedRate(df, o.Zona, "xp_gain")
    /\ o.RawXpGainH = ExpectedRate(df, o.Zona, "raw_xp_gain")
    /\ o.SuppliesH = ExpectedRate(df, o.Zona, "supplies")
    /\ o.LootH = ExpectedRate(df, o.Zona, "loot")
    /\ o.BalanceH = ExpectedRate(df, o.Zona, "balance")

\* C11 as stated: every output row has the count of its zone's rows, the
\* exact sum of their hours, and each rate equal to the sum of the metric
\* over the hours rounded to 2 decimals, 0 when the hours are 0.
ZoneRowsExactHours ==
    ZoneReturned =>
        \A k \in 1..Len(fn_out.value) :
            /\ RatesAsStated(fn_in.arg, fn_out.value[k])
            /\ fn_out.value[k].Horas * 3600 = 100 * SecondsOfZone(fn_in.arg, fn_out.value[k].Zona)

\* C11: every output row has the count of its zone's rows, the sum of their
\* hours rounded to 2 decimals, and each rate equal to the sum of the metric
\* over the unrounded hours, rounded to 2 decimals, 0 when the hours are 0.
ZoneRowsRoundedHours ==
    ZoneReturned =>
        \A k \in 1..Len(fn_out.value) :
            /\ RatesAsStated(fn_in.arg, fn_out.value[k])
            /\ fn_out.value[k].Horas
                   = RoundHalfEven(SecondsOfZone(fn_in.arg, fn_out.value[k].Zona) * 100, 3600)

\* A frame of two zones was aggregated: one zone of two hunts whose hours,
\* 2 h 44 min, are no multiple of 0.01 h, one zone whose hours are 0.
TwoZonesAggregated ==
    /\ ZoneReturned
    /\ Len(fn_out.value) = 2
    /\ \E k \in 1..2 : fn_out.value[k].Hunts = 2 /\ fn_out.value[k].Horas = 273
    /\ \E k \in 1..2 : fn_out.value[k].Horas = 0 /\ fn_out.value[k].BalanceH = 0

\* The balance per hour of a zone before rounding.
BalancePerHour(df, z) ==
    IF SecondsOfZone(df, z) > 0
    THEN Frac(SumOver(df, RowsOfZone(df, z), "balance") * 3600, SecondsOfZone(df, z))
    ELSE Frac(0, 1)

\* C22 as stated: the output rows are in non-increasing order of their
\* rounded balance per hour, and two zones whose rounded values are equal
\* stand in grouping order (groupby's, ascending by zone name).
OrderedByRoundedBalance ==
    ZoneReturned =>
        \A i, j \in 1..Len(fn_out.value) :
            i < j =>
                /\ fn_out.value[i].BalanceH >= fn_out.value[j].BalanceH
                /\ fn_out.value[i].BalanceH = fn_out.value[j].BalanceH
                       => StrLess(fn_out.value[i].Zona, fn_out.value[j].Zona)

\* C22: the output rows are in non-increasing order of their rounded balance
\* per hour, and two zones whose balance per hour is equal before rounding
\* stand in grouping order.
OrderedByBalanceStable ==
    ZoneReturned =>
        \A i, j \in 1..Len(fn_out.value) :
            i < j =>
                /\ fn_out.value[i].BalanceH >= fn_out.value[j].BalanceH
                /\ BalancePerHour(fn_in.arg, fn_out.value[i].Zona)
                       = BalancePerHour(fn_in.arg, fn_out.value[j].Zona)
                       => StrLess(fn_out.value[i].Zona, fn_out.value[j].Zona)

\* Two zones of the same positive balance per hour came out in grouping
\* order although the frame lists the later zone first.
TiedZonesInGroupingOrder ==
    /\ ZoneReturned
    /\ Len(fn_out.value) = 2
    /\ fn_in.arg[1].zona = <<"B">>
    /\ fn_out.value[1].Zona = <<"A">>
    /\ fn_out.value[1].BalanceH > 0
    /\ BalancePerHour(fn_in.arg, <<"A">>) = BalancePerHour(fn_in.arg, <<"B">>)

KphReturned == fn_in.fn = "compute_monsters_kph_for_df" /\ fn_out.done

\* The seconds a row counts for: its hours times 3600.
RowSeconds(row) == (RowHoursFallback(row)[1] * 3600) \div RowHoursFallback(row)[2]

\* The rows with hours > 0 that report a count of m > 0.
RowsWithKills(df, m) ==
    {i \in 1..Len(df) :
        /\ RowSeconds(df[i]) > 0
        /\ m \in DOMAIN df[i].kills_by_monster
        /\ df[i].kills_by_monster[m] > 0}

KillsOver(df, I, m) ==
    LET RECURSIVE Sum(_)
        Sum(J) == IF J = {} THEN 0
                  ELSE LET i == CHOOSE j \in J : TRUE
                       IN  df[i].kills_by_monster[m] + Sum(J \ {i})
    IN  Sum(I)

SecondsOver(df, I) ==
    LET RECURSIVE Sum(_)
        Sum(J) == IF J = {} THEN 0
                  ELSE LET i == CHOOSE j \in J : TRUE IN RowSeconds(df[i]) + Sum(J \ {i})
    IN  Sum(I)

\* C12: KPH(m) is the sum of the counts of m over the rows with hours > 0 and
\* a count of m > 0, divided by the hours of exactly those rows and rounded to
\* 4 decimals; a monster with no such row is absent from the result.
KphOverOwnHours ==
    KphReturned =>
        \A m \in {"Rat", "Bat"} :
            IF RowsWithKills(fn_in.arg, m) = {}
            THEN m \notin DOMAIN fn_out.value
            ELSE /\ m \in DOMAIN fn_out.value
                 /\ fn_out.value[m]
                        = RoundHalfEven(
                              KillsOver(fn_in.arg, RowsWithKills(fn_in.arg, m), m) * 3600 * 10000,
                              SecondsOver(fn_in.arg, RowsWithKills(fn_in.arg, m)))

\* Two rows with hours: 10 Rat in 2 h, then no Rat and 3 Bat in 1 h.  The
\* KPH of Rat is 5, over its own 2 h; Bat's is 3.
KphNotDiluted ==
    /\ KphReturned
    /\ Len(fn_in.arg) = 2
    /\ \A i \in 1..2 : RowSeconds(fn_in.arg[i]) > 0
    /\ fn_in.arg[2].kills_by_monster = ("Rat" :> 0) @@ ("Bat" :> 3)
    /\ fn_out.value = ("Rat" :> 50000) @@ ("Bat" :> 30000)

\* The kills a raw record carries, under the key _extract_kills_from_raw
\* reads.
RawKills(rec) ==
    IF "Killed Monsters" \in DOMAIN rec[2] THEN rec[2]["Killed Monsters"]
    ELSE IF "killed_monsters" \in DOMAIN rec[2] THEN rec[2]["killed_monsters"]
    ELSE IF "kills_by_monster" \in DOMAIN rec[2] THEN rec[2]["kills_by_monster"]
    ELSE Null

\* The processed rows, each with the mapping the Kill-Mapping Extractor
\* (_parse_as_mapping) reads from the kills of its raw record.
RowsWithExtractedKills ==
    [i \in 1..Len(norm_out.rows) |->
        [norm_out.rows[i] EXCEPT
            !.kills_by_monster = ParseAsMapping(RawKills(norm_out.rows[i].source_raw))]]

PipelineDone ==
    Returned /\ fn_in.fn = "compute_monsters_kph_for_df" /\ fn_out.done

\* C21: along normalize_records then compute_monsters_kph_for_df, the kills
\* of a raw record count toward KPH in every encoding the extractor accepts
\* (pairs, objects under any name and count alias, the canonical
\* Name/Count objects), repeated monsters summed: the KPH is the one the
\* extractor's mapping of the raw kills gives.
EveryKillEncodingCounts ==
    PipelineDone => fn_out.value = compute_monsters_kph_for_df(RowsWithExtractedKills)

\* --------------------------------------------------- claims on the bestiary

EtaReturned == fn_in.fn = "make_bestiary_row" /\ fn_out.done

\* The name a text is, letter case aside.
NamesMatching(chars) == {v \in VALID_DIFFS : Lower(v) = Lower(chars)}

\* The ETA the table gives: remaining / kph, 0 when nothing remains.
EtaFromTable(eta, name, current, kph) ==
    LET remaining == Max(0, DIFF_TO_REQ[name] - Max(0, current))
    IN  /\ eta # Null
        /\ IF remaining > 0 THEN eta[1] * kph[1] = remaining * kph[2] * eta[2]
           ELSE eta[1] = 0

EtaRule(Known(_)) ==
    EtaReturned =>
        IF Known(fn_in.arg.difficulty) = {} \/ fn_in.arg.kph[1] <= 0
        THEN fn_out.value.hours_to_complete = Null
        ELSE \A name \in Known(fn_in.arg.difficulty) :
                 EtaFromTable(fn_out.value.hours_to_complete, name,
                              fn_in.arg.current_kills, fn_in.arg.kph)

KnownAsGiven(diff) == IF IsStr(diff) THEN NamesMatching(diff[2]) ELSE {}
KnownTrimmed(diff) == IF IsStr(diff) THEN NamesMatching(Strip(diff[2])) ELSE {}

\* C13 as stated: the ETA is null exactly when the difficulty is none of the
\* six names, letter case aside, or kph <= 0; otherwise it is
\* max(0, required - max(0, current_kills)) / kph, 0 when nothing remains.
EtaByNameAsGiven == EtaRule(KnownAsGiven)

\* C13: the same with the difficulty compared after its surrounding
\* whitespace is removed.
EtaByNameTrimmed == EtaRule(KnownTrimmed)

\* Medium, no kills yet, 50 kills an hour: 20 hours.
MediumEtaTwentyHours ==
    /\ EtaReturned
    /\ fn_in.arg.difficulty = JStr(nMedium)
    /\ fn_in.arg.current_kills = 0
    /\ fn_in.arg.kph = Frac(50, 1)
    /\ fn_out.value.required_kills = JInt(1000)
    /\ fn_out.value.hours_to_complete = Frac(20, 1)

====
